---- MODULE Spec2Model ----
(***************************************************************************)
(* Model of the authentication core of go-api-template: refresh-token      *)
(* storage and rotation (internal/auth/service.go, the Redis and the SQL    *)
(* RefreshTokenRepository), password reset, registration, and the stores   *)
(* they share.                                                              *)
(*                                                                          *)
(* Time is a counter of ticks.  A Redis key carries the tick at which it    *)
(* expires (exp); Tick removes the keys whose exp has been reached, so a    *)
(* key is present in a map exactly while Redis would answer for it.         *)
(* Store reads are answered; the writes whose error the service handles     *)
(* (pipelines, SET, UPDATE, INSERT) may fail.                               *)
(***************************************************************************)
EXTENDS Integers, Sequences, FiniteSets, TLC

\* ---------------------------------------------------------------- bounds
MaxTime == 3
MaxSecrets == 3
MaxDraws == 2
MaxRecords == 3
MaxRequests == 2
MaxGateTime == 1
NumCalls == 2

\* ------------------------------------------------------ program constants
\* cfg.Auth.RefreshTokenDuration (default 7*24h), the 7*24h fallback TTL of a
\* revocation marker, and passwordResetTokenTTL (1h), in ticks.
RefreshTokenDuration == 2
FallbackTTL == 2
passwordResetTokenTTL == 1
accessTokenDuration == 1
verificationTokenTTL == 2
emailCooldownDuration == 2
ipRateLimitWindow == 2
ipRateLimitMax == 2

VARIABLES
    now,          \* time.Now(), in ticks
    backend,      \* which RefreshTokenRepository the service was built with
    users,        \* SQL table users: id -> row
    rtKeys,       \* Redis hashes   refresh_token:<hash>
    revokedKeys,  \* Redis strings  refresh_token:revoked:<hash>  -> exp
    userTokens,   \* Redis sets     user_tokens:<uid>
    resetKeys,    \* Redis hashes   password_reset:<hash>
    sqlTokens,    \* SQL table refresh_tokens: token_hash -> row
    calls,        \* the calls in flight: position and locals of each
    nextSecret,   \* how many random tokens generateRandomToken has produced
    emailTasks,   \* goroutines spawned to send an email, not yet run
    issued,       \* history: refresh tokens whose StoreRefreshToken succeeded
    sent,         \* history: secrets delivered by email
    revokedLog,   \* history: hashes whose revocation completed successfully
    ipKeys,       \* Redis sorted sets ratelimit:ip:<ip>:<purpose>
    cooldownKeys, \* Redis strings     ratelimit:email:<hash>  -> exp
    recorded,     \* history: times of the RecordIPRequest calls that were applied
    guarded,      \* ghost: the last request's handler checked a limiter first
    faulted,      \* ghost: the limiter calls that failed for the request being served
    verifiedLog   \* history: verification tokens a VerifyEmail call consumed

vars == <<now, backend, users, rtKeys, revokedKeys, userTokens, resetKeys,
          sqlTokens, calls, nextSecret, emailTasks, issued, sent, revokedLog,
          ipKeys, cooldownKeys, recorded, guarded, faulted, verifiedLog>>

redisVars == <<rtKeys, revokedKeys, userTokens, resetKeys>>
histVars == <<issued, sent, revokedLog>>
gateVars == <<ipKeys, cooldownKeys, recorded, guarded, faulted>>

\* ----------------------------------------------------------------- values
Calls == 1..NumCalls
Null == -1
NoTTL == -1
NoTok == <<"none", 0>>
Tok(n) == <<"tok", n>>
ForgedTok == Tok(0)
EmptyMap == <<>>

\* TokenClaims, and the value of a claim the token does not carry.
Absent == "(absent)"
UuidString(id) == <<"uuid", id>>
NoClaims == [user_id |-> UuidString(0), email |-> Absent, iat |-> Null, exp |-> Null]
NoAccess == [key |-> "none", claims |-> NoClaims]

Restrict(f, S) == IF S = {} THEN EmptyMap ELSE [k \in S |-> f[k]]
Put(f, k, v) == (k :> v) @@ f

\* hashToken: SHA-256, hex encoded.  One-way: the digest is never the token.
hashToken(token) == <<"sha256", token[2]>>

\* The argon2id parameters of hashPassword.
argon2Time == 3
argon2Memory == 65536
argon2Threads == 4
argon2KeyLen == 32
argon2Version == 19

\* A stored password is the text "$argon2id$v=..$m=..,t=..,p=..$salt$key".
\* It is kept as what strings.Split(encodedHash, "$") makes of it: one part
\* per field, each with the layout it has and the numbers or bytes it holds.
Field(text) == [kind |-> text, n |-> <<>>]
VersionField(version) == [kind |-> "v=%d", n |-> <<version>>]
CostField(memory, time, threads) == [kind |-> "m=%d,t=%d,p=%d", n |-> <<memory, time, threads>>]
\* base64.RawStdEncoding of a byte string; the empty field encodes no bytes.
B64(bytes) == [kind |-> "base64", n |-> bytes]
NotB64 == Field("not base64")
NoBytes == <<>>
NoHash == <<>>

\* argon2.IDKey refuses, by panicking, a time or a parallelism below one.
IDKeyPanics(time, threads) == time < 1 \/ threads < 1

\* argon2.IDKey: a key of keyLen bytes that no other input derives.
IDKey(password, salt, time, memory, threads, keyLen) ==
    IF keyLen = 0 THEN NoBytes
    ELSE <<password, salt, time, memory, threads, keyLen>>

\* len(key) of a derived key.
KeyLen(bytes) == IF bytes = NoBytes THEN 0 ELSE bytes[6]

\* The stored text of a password derived under a salt and cost parameters.
EncodeHash(password, salt, time, memory, threads, keyLen) ==
    << Field(""), Field("argon2id"), VersionField(argon2Version),
       CostField(memory, time, threads), B64(salt),
       B64(IDKey(password, salt, time, memory, threads, keyLen)) >>

\* hashPassword with the salt that rand.Read drew.
hashPasswordSalted(password, salt) ==
    EncodeHash(password, salt, argon2Time, argon2Memory, argon2Threads, argon2KeyLen)

\* The salt of the passwords hashed by the flows: its value changes nothing
\* they can observe, so they all draw the same one.
FlowSalt == <<1>>
hashPassword(password) == hashPasswordSalted(password, FlowSalt)

\* verifyPassword with the derivation at the parameters of hashPassword
\* instead of the ones of the stored text.
verifyPasswordFixedCost(encodedHash, password) ==
    LET parts == encodedHash
    IN  IF Len(parts) # 6 THEN {"false"}
        ELSE IF parts[4].kind # "m=%d,t=%d,p=%d" THEN {"false"}
        ELSE IF parts[3].kind # "v=%d" THEN {"false"}
        ELSE IF parts[5].kind # "base64" THEN {"false"}
        ELSE IF parts[6].kind # "base64" THEN {"false"}
        ELSE LET salt == parts[5].n
                 decodedHash == parts[6].n
                 inputHash == IDKey(password, salt, argon2Time, argon2Memory,
                                    argon2Threads, argon2KeyLen)
             IN  IF decodedHash = inputHash THEN {"true"} ELSE {"false"}

\* verifyPassword, by outcome: what it returns, or "panic".  Split on "$"
\* and the count of six, Sscanf of the cost field then of the version field,
\* the two base64 decodings, argon2.IDKey at the parsed parameters and at the
\* length of the decoded key, subtle.ConstantTimeCompare.  Neither the
\* algorithm name nor the parsed version is looked at.  For a key of no
\* bytes the derivation either panics inside the library or yields no bytes,
\* which compare equal to the decoded key.
verifyPasswordOutcomes(encodedHash, password) ==
    LET parts == encodedHash
    IN  IF Len(parts) # 6 THEN {"false"}
        ELSE IF parts[4].kind # "m=%d,t=%d,p=%d" THEN {"false"}
        ELSE IF parts[3].kind # "v=%d" THEN {"false"}
        ELSE IF parts[5].kind # "base64" THEN {"false"}
        ELSE IF parts[6].kind # "base64" THEN {"false"}
        ELSE LET memory == parts[4].n[1]
                 time == parts[4].n[2]
                 threads == parts[4].n[3]
                 salt == parts[5].n
                 decodedHash == parts[6].n
                 keyLen == KeyLen(decodedHash)
                 inputHash == IDKey(password, salt, time, memory, threads, keyLen)
             IN  IF IDKeyPanics(time, threads) THEN {"panic"}
                 ELSE IF keyLen = 0 THEN {"panic", "true"}
                 ELSE IF decodedHash = inputHash THEN {"true"} ELSE {"false"}

verifyPassword(encodedHash, password) ==
    verifyPasswordOutcomes(encodedHash, password) = {"true"}

SeedUsers == {1, 2}
SeedEmail(u) == IF u = 1 THEN "a@x.com" ELSE "b@x.com"
SeedPassword == "password1"

UserRow(email, passwordHash, verified, token, sentAt) ==
    [email |-> email, password_hash |-> passwordHash, email_verified |-> verified,
     email_verification_token |-> token, email_verification_sent_at |-> sentAt]

IdleCall ==
    [op |-> "none", pc |-> "idle", tok |-> NoTok, uid |-> 0, exp |-> Null,
     ttl |-> 0, newTok |-> NoTok, pipe |-> {}, pw |-> "", res |-> "none",
     replay |-> FALSE, revoked |-> FALSE, pre |-> {},
     ip |-> "", purpose |-> "", email |-> "",
     access |-> NoAccess, claims |-> NoClaims, at |-> Null, hash |-> NoHash,
     given |-> "", overtaken |-> FALSE]

Finish(rec, result) ==
    [rec EXCEPT !.pc = "done", !.res = result, !.pipe = {}, !.ttl = 0, !.pw = "",
                !.exp = Null, !.at = Null]

\* A finished call hands its result to its caller before anything else
\* happens: the return touches nothing shared, so no interleaving of store
\* operations is lost.
Running == \A c \in Calls : calls[c].pc # "done"

\* A new call takes the first slot that holds no call.
Free(c) ==
    /\ Running
    /\ calls[c].pc = "idle"
    /\ \A d \in Calls : d < c => calls[d].pc # "idle"

\* Call c is about to take the step named pc.
At(c, pc) == Running /\ calls[c].pc = pc

Return(c) ==
    /\ calls[c].pc = "done"
    /\ calls' = [calls EXCEPT ![c] = IdleCall]
    /\ faulted' = {}
    /\ UNCHANGED <<now, backend, ipKeys, cooldownKeys, recorded, guarded, verifiedLog,
                   users, rtKeys, revokedKeys, userTokens,
                   resetKeys, sqlTokens, nextSecret, emailTasks, issued, sent,
                   revokedLog>>

\* A call that will still draw a random token.
WillGenerate(rec) ==
    /\ rec.pc \notin {"idle", "done"}
    /\ rec.op = "Refresh"
    /\ rec.newTok = NoTok
Reserved == Cardinality({c \in Calls : WillGenerate(calls[c])})
CanGenerate == nextSecret + Reserved < MaxSecrets

\* The smaller budget of random tokens under which the repository harness and
\* the account flows are explored.
Within(n) == nextSecret < n

\* ------------------------------------------------------------- user store
\* user.Repository.GetByEmail / GetByID
GetByEmail(email) == {u \in DOMAIN users : users[u].email = email}
GetByID(id) == {u \in DOMAIN users : u = id}

\* ------------------------------------------------------------------- Init
InitStores ==
    /\ now = 0
    /\ rtKeys = EmptyMap
    /\ revokedKeys = EmptyMap
    /\ userTokens = EmptyMap
    /\ resetKeys = EmptyMap
    /\ sqlTokens = EmptyMap
    /\ calls = [c \in Calls |-> IdleCall]
    /\ nextSecret = 0
    /\ emailTasks = {}
    /\ issued = {}
    /\ sent = {}
    /\ revokedLog = {}
    /\ ipKeys = EmptyMap
    /\ cooldownKeys = EmptyMap
    /\ recorded = <<>>
    /\ guarded = FALSE
    /\ faulted = {}
    /\ verifiedLog = {}

\* The service is built over either repository; the accounts table holds two
\* registered, verified accounts.
Init ==
    /\ InitStores
    /\ backend \in {"redis", "sql"}
    /\ users = [u \in SeedUsers |->
                  UserRow(SeedEmail(u), hashPassword(SeedPassword), TRUE, NoTok, Null)]

\* ------------------------------------------------------------------- time
Live(exp, t) == exp = NoTTL \/ t < exp
LiveKeys(f, t) == Restrict(f, {k \in DOMAIN f : Live(f[k].exp, t)})

Tick ==
    /\ Running
    /\ now < MaxTime
    /\ now' = now + 1
    /\ rtKeys' = LiveKeys(rtKeys, now + 1)
    /\ revokedKeys' = LiveKeys(revokedKeys, now + 1)
    /\ userTokens' = LiveKeys(userTokens, now + 1)
    /\ resetKeys' = LiveKeys(resetKeys, now + 1)
    /\ ipKeys' = LiveKeys(ipKeys, now + 1)
    /\ cooldownKeys' = LiveKeys(cooldownKeys, now + 1)
    /\ UNCHANGED <<backend, recorded, guarded, faulted, verifiedLog, users, sqlTokens, calls, nextSecret, emailTasks, histVars>>

\* Redis TTL: -2 for a missing key, -1 for a key without expiry.
RedisTTL(f, k) ==
    IF k \notin DOMAIN f THEN -2
    ELSE IF f[k].exp = NoTTL THEN -1
    ELSE f[k].exp - now

\* ------------------------------------------------ RefreshToken (the model)
\* A faulty IsRevoked that never reports a revocation.
IsRevokedNever(rt) == FALSE

\* RefreshToken.IsRevoked / IsExpired / IsValid
IsRevoked(rt) == rt.revoked_at # Null
IsExpired(rt) == now > rt.expires_at
IsValid(rt) == ~IsRevoked(rt) /\ ~IsExpired(rt)

\* ------------------------------------------------------------ PasetoService
\* The key the service was built with, and the key of some other issuer.
symmetricKey == "k1"
OtherKey == "k2"

\* token.V4Encrypt: the claims sealed under a key.  Times are whole seconds,
\* which the RFC 3339 form of iat and exp carries unchanged.
V4Encrypt(key, claims) == [key |-> key, claims |-> claims]

\* CreateToken: iat = now, exp = now + duration, user_id = userID.String().
CreateToken(userID, email, duration) ==
    V4Encrypt(symmetricKey, [user_id |-> UuidString(userID), email |-> email,
                             iat |-> now, exp |-> now + duration])

\* The parser's NotExpired rule: the token is refused when now is after exp.
NotExpired(claims) == ~(now > claims.exp)

\* parser.ParseV4Local: a TokenError when the key does not open the token, a
\* RuleError when the NotExpired rule fails.
ParseV4Local(key, token) ==
    IF token.key # key THEN "TokenError"
    ELSE IF ~NotExpired(token.claims) THEN "RuleError"
    ELSE "ok"

\* A VerifyToken that refuses the access token of a pair whose refresh token
\* carries a revocation marker.
VerifyTokenRevocable(token) ==
    IF \E i \in issued : /\ i.access = token
                         /\ \/ hashToken(i.tok) \in DOMAIN revokedKeys
                            \/ /\ hashToken(i.tok) \in DOMAIN sqlTokens
                               /\ sqlTokens[hashToken(i.tok)].revoked_at # Null
    THEN [err |-> "ErrInvalidToken", claims |-> NoClaims]
    ELSE IF ParseV4Local(symmetricKey, token) = "RuleError"
    THEN [err |-> "ErrExpiredToken", claims |-> NoClaims]
    ELSE IF ParseV4Local(symmetricKey, token) # "ok"
    THEN [err |-> "ErrInvalidToken", claims |-> NoClaims]
    ELSE [err |-> "nil", claims |-> token.claims]

\* VerifyToken: a RuleError is ErrExpiredToken, any other parse error and any
\* missing claim is ErrInvalidToken; otherwise the embedded claims.
VerifyToken(token) ==
    LET parsed == ParseV4Local(symmetricKey, token)
    IN  IF parsed = "RuleError" THEN [err |-> "ErrExpiredToken", claims |-> NoClaims]
        ELSE IF parsed # "ok" THEN [err |-> "ErrInvalidToken", claims |-> NoClaims]
        ELSE IF token.claims.user_id = UuidString(0) \/ token.claims.email = Absent
                  \/ token.claims.iat = Null \/ token.claims.exp = Null
             THEN [err |-> "ErrInvalidToken", claims |-> NoClaims]
        ELSE [err |-> "nil", claims |-> token.claims]

\* A caller creates a token and keeps it.
PasetoCreate(c, userID, email, duration) ==
    /\ Free(c)
    /\ calls' = [calls EXCEPT ![c] =
            [IdleCall EXCEPT !.op = "CreateToken", !.pc = "holding", !.uid = userID,
                             !.email = email, !.ttl = duration, !.at = now,
                             !.access = CreateToken(userID, email, duration)]]
    /\ UNCHANGED <<now, backend, gateVars, verifiedLog, users, redisVars, sqlTokens,
                   nextSecret, emailTasks, histVars>>

\* The caller has the token it keeps verified.
PasetoVerify(c) ==
    LET rec == calls[c]
        v == VerifyToken(rec.access)
    IN  /\ At(c, "holding")
        /\ calls' = [calls EXCEPT ![c] =
                Finish([rec EXCEPT !.claims = v.claims],
                       IF v.err = "nil" THEN "claims" ELSE v.err)]
        /\ UNCHANGED <<now, backend, gateVars, verifiedLog, users, redisVars, sqlTokens,
                       nextSecret, emailTasks, histVars>>

\* Tokens the service did not make: sealed under another key, or sealed under
\* its key without the email claim or with a user_id that is no UUID.
ForeignTokens ==
    {V4Encrypt(OtherKey, [user_id |-> UuidString(1), email |-> "a@x.com",
                          iat |-> 0, exp |-> MaxTime]),
     V4Encrypt(symmetricKey, [user_id |-> UuidString(1), email |-> Absent,
                              iat |-> 0, exp |-> MaxTime]),
     V4Encrypt(symmetricKey, [user_id |-> <<"text", 1>>, email |-> "a@x.com",
                              iat |-> 0, exp |-> MaxTime])}

PasetoVerifyForeign(c, token) ==
    LET rec == [IdleCall EXCEPT !.op = "VerifyToken", !.access = token]
        v == VerifyToken(token)
    IN  /\ Free(c)
        /\ calls' = [calls EXCEPT ![c] =
                Finish([rec EXCEPT !.claims = v.claims],
                       IF v.err = "nil" THEN "claims" ELSE v.err)]
        /\ UNCHANGED <<now, backend, gateVars, verifiedLog, users, redisVars, sqlTokens,
                       nextSecret, emailTasks, histVars>>

\* ------------------------------------------------- Middleware.RequireAuth
\* A middleware that answers an expired token as an invalid one.
AuthenticateConflating(token) ==
    LET parsed == ParseV4Local(symmetricKey, token)
    IN  IF parsed # "ok" THEN "invalid_token"
        ELSE IF token.claims.email = Absent THEN "invalid_token"
        ELSE IF token.claims.user_id[1] # "uuid" THEN "invalid_token_user_id"
        ELSE "next"

\* What the middleware does with the token of the request: tokenService
\* .VerifyToken, then uuid.Parse of the user_id claim.
Authenticate(token) ==
    LET v == VerifyToken(token)
    IN  IF v.err = "ErrExpiredToken" THEN "token_expired"
        ELSE IF v.err # "nil" THEN "invalid_token"
        ELSE IF v.claims.user_id[1] # "uuid" THEN "invalid_token_user_id"
        ELSE "next"

\* The access tokens returned to callers so far.
IssuedAccess == {i.access : i \in issued}

\* A request to a protected route, with an access token or without one.
RequireAuth(c, token) ==
    /\ Free(c)
    /\ calls' = [calls EXCEPT ![c] =
            Finish([IdleCall EXCEPT !.op = "RequireAuth", !.access = token],
                   IF token = NoAccess THEN "missing_auth" ELSE Authenticate(token))]
    /\ UNCHANGED <<now, backend, gateVars, verifiedLog, users, redisVars, sqlTokens,
                   nextSecret, emailTasks, histVars>>

\* ------------------------------------------- Redis commands on a key family
HSet(f, k, fields) ==
    Put(f, k, [exp |-> IF k \in DOMAIN f THEN f[k].exp ELSE NoTTL] @@ fields)
\* An EXPIRE that answers without setting the TTL.
ExpireNotApplied(f, k, ttl) == f
Expire(f, k, ttl) == IF k \in DOMAIN f THEN [f EXCEPT ![k].exp = now + ttl] ELSE f
SAdd(f, k, m) ==
    Put(f, k, IF k \in DOMAIN f
              THEN [f[k] EXCEPT !.members = @ \cup {m}]
              ELSE [members |-> {m}, exp |-> NoTTL])
SetEX(f, k, ttl) == Put(f, k, [val |-> "1", exp |-> now + ttl])
Del(f, k) == Restrict(f, DOMAIN f \ {k})

\* ---------------------------------------- RedisRepository.StoreRefreshToken
\* The pipeline HSET, EXPIRE, SADD, EXPIRE; n is how many of its commands the
\* server ran (4 when Exec succeeds, any prefix when it fails).
StorePipeline(n, uid, h, expiresAt, ttl) ==
    LET rt1 == IF n >= 1
               THEN HSet(rtKeys, h, [user_id |-> uid, expires_at |-> expiresAt])
               ELSE rtKeys
        rt2 == IF n >= 2 THEN Expire(rt1, h, ttl) ELSE rt1
        ut3 == IF n >= 3 THEN SAdd(userTokens, uid, h) ELSE userTokens
        ut4 == IF n >= 4 THEN Expire(ut3, uid, ttl) ELSE ut3
    IN  <<rt2, ut4>>

\* A faulty generateTokens that returns the pair whatever the store said.
StoreResultAlways(op, ok) == "Tokens"

\* What the caller of StoreRefreshToken does with its result: generateTokens
\* returns the pair, or the error; a direct caller gets nil or the error.
StoreResult(op, ok) ==
    IF op \in {"Login", "Refresh"}
    THEN (IF ok THEN "Tokens" ELSE "failed to generate tokens")
    ELSE (IF ok THEN "nil" ELSE "error")

\* time.Until(expiresAt) and the check that it is positive (Redis only), on
\* entry to StoreRefreshToken.
BeginStore(rec, uid, tok, expiresAt) ==
    LET r == [rec EXCEPT !.uid = uid, !.newTok = tok, !.exp = expiresAt,
                         !.ttl = expiresAt - now]
    IN  IF backend = "redis" /\ expiresAt - now <= 0
        THEN Finish(r, StoreResult(rec.op, FALSE))
        ELSE [r EXCEPT !.pc = "store"]

\* AuthTokens: on success the caller gets the access token with the refresh
\* token; on failure it gets the error and no token.
StoreReturn(c, ok) ==
    /\ calls' = [calls EXCEPT ![c] =
                    Finish([@ EXCEPT !.access = IF ok THEN @ ELSE NoAccess],
                           StoreResult(@.op, ok))]
    /\ issued' = IF ok
                 THEN issued \cup {[tok |-> calls[c].newTok, owner |-> calls[c].uid,
                                    parent |-> calls[c].tok,
                                    expires_at |-> calls[c].exp,
                                    access |-> calls[c].access]}
                 ELSE issued

StoreRedis(c) ==
    LET rec == calls[c]
        h == hashToken(rec.newTok)
    IN  /\ At(c, "store")
        /\ backend = "redis"
        /\ \E n \in 0..4, ok \in BOOLEAN :
            /\ ok => n = 4
            /\ rtKeys' = StorePipeline(n, rec.uid, h, rec.exp, rec.ttl)[1]
            /\ userTokens' = StorePipeline(n, rec.uid, h, rec.exp, rec.ttl)[2]
            /\ StoreReturn(c, ok)
        /\ UNCHANGED <<now, backend, gateVars, verifiedLog, users, revokedKeys, resetKeys, sqlTokens,
                       nextSecret, emailTasks, sent, revokedLog>>

\* Repository.StoreRefreshToken (SQL): one INSERT; token_hash is UNIQUE.
StoreSql(c) ==
    LET rec == calls[c]
        h == hashToken(rec.newTok)
    IN  /\ At(c, "store")
        /\ backend = "sql"
        /\ \E ok \in BOOLEAN :
            /\ ok => h \notin DOMAIN sqlTokens
            /\ sqlTokens' = IF ok
                            THEN Put(sqlTokens, h,
                                     [user_id |-> rec.uid, expires_at |-> rec.exp,
                                      revoked_at |-> Null])
                            ELSE sqlTokens
            /\ StoreReturn(c, ok)
        /\ UNCHANGED <<now, backend, gateVars, verifiedLog, users, redisVars, nextSecret, emailTasks,
                       sent, revokedLog>>

\* generateRandomToken: 32 bytes of crypto/rand; every draw is a fresh value.
generateRandomToken == Tok(nextSecret + 1)

\* --------------------------------------------------------- generateTokens
\* CreateToken, generateRandomToken, expiresAt := now + refreshTokenDuration,
\* then StoreRefreshToken.
generateTokens(rec, uid) ==
    BeginStore([rec EXCEPT !.access = CreateToken(uid, users[uid].email,
                                                  accessTokenDuration)],
               uid, generateRandomToken, now + RefreshTokenDuration)


\* ------------------------------------------------------- GetRefreshToken
\* The row a repository hands back as *RefreshToken.
RedisToken(h) ==
    [user_id |-> rtKeys[h].user_id, expires_at |-> rtKeys[h].expires_at,
     revoked_at |-> Null]
SqlToken(h) ==
    [user_id |-> sqlTokens[h].user_id, expires_at |-> sqlTokens[h].expires_at,
     revoked_at |-> sqlTokens[h].revoked_at]
NoRow == [user_id |-> 0, expires_at |-> Null, revoked_at |-> Null]

\* How a returned *RefreshToken reads through IsRevoked / IsExpired.
Classify(rt) ==
    IF IsValid(rt) THEN "Token"
    ELSE IF IsRevoked(rt) THEN "ErrRefreshTokenRevoked"
    ELSE "ErrRefreshTokenExpired"

\* RedisRepository.GetRefreshToken, after EXISTS on the marker found none:
\* HGETALL on the record, then the expiry check.
RedisRecordLookup(h) ==
    IF h \notin DOMAIN rtKeys THEN "ErrRefreshTokenNotFound"
    ELSE IF now > rtKeys[h].expires_at THEN "ErrRefreshTokenExpired"
    ELSE "Token"

\* RedisRepository.GetRefreshToken as one lookup at the current instant.
RedisLookup(h) ==
    IF h \in DOMAIN revokedKeys THEN "ErrRefreshTokenRevoked" ELSE RedisRecordLookup(h)

\* Repository.GetRefreshToken (SQL): SELECT by token_hash.
SqlLookup(h) ==
    IF h \notin DOMAIN sqlTokens THEN "ErrRefreshTokenNotFound" ELSE "Token"

\* Where a call goes when GetRefreshToken returns.  RefreshAccessToken maps
\* NotFound to ErrInvalidToken, passes other errors on, and validates the row
\* with IsValid / IsRevoked / IsExpired before it revokes; a direct caller gets
\* the outcome (a returned row read through Classify).
GetReturn(rec, outcome, rt) ==
    IF outcome # "Token"
    THEN Finish(rec, IF rec.op = "Refresh" /\ outcome = "ErrRefreshTokenNotFound"
                     THEN "ErrInvalidToken" ELSE outcome)
    ELSE IF rec.op # "Refresh" THEN Finish(rec, Classify(rt))
    ELSE IF ~IsValid(rt) /\ IsRevoked(rt) THEN Finish(rec, "ErrRefreshTokenRevoked")
    ELSE IF ~IsValid(rt) /\ IsExpired(rt) THEN Finish(rec, "ErrRefreshTokenExpired")
    ELSE [rec EXCEPT !.pc = "revoke", !.uid = rt.user_id, !.exp = rt.expires_at]

\* The first store operation of GetRefreshToken: EXISTS on the revocation
\* marker (Redis), or the whole SELECT (SQL).
GetFirst(rec) ==
    LET h == hashToken(rec.tok)
    IN  IF backend = "redis"
        THEN (IF h \in DOMAIN revokedKeys
              THEN GetReturn(rec, "ErrRefreshTokenRevoked", NoRow)
              ELSE [rec EXCEPT !.pc = "get_hgetall"])
        ELSE GetReturn(rec, SqlLookup(h),
                       IF h \in DOMAIN sqlTokens THEN SqlToken(h) ELSE NoRow)

GetHGetAll(c) ==
    LET rec == calls[c]
        h == hashToken(rec.tok)
    IN  /\ At(c, "get_hgetall")
        /\ calls' = [calls EXCEPT ![c] =
                        GetReturn(rec, RedisRecordLookup(h),
                                  IF h \in DOMAIN rtKeys THEN RedisToken(h) ELSE NoRow)]
        /\ UNCHANGED <<now, backend, gateVars, verifiedLog, users, redisVars, sqlTokens, nextSecret,
                       emailTasks, histVars>>

\* ---------------------------------------------------- RevokeRefreshToken
\* A faulty RefreshAccessToken that goes on to issue when the revoke failed.
RevokeReturnIgnoringError(rec, outcome) ==
    [rec EXCEPT !.pc = "get_user", !.revoked = (outcome = "nil"), !.ttl = 0]

\* Where a call goes when RevokeRefreshToken returns: RefreshAccessToken goes
\* on to the user lookup or returns the wrapped error; Service.RevokeRefreshToken
\* (logout) hands the result back.
RevokeReturn(rec, outcome) ==
    IF rec.op = "Refresh"
    THEN (IF outcome = "nil"
          THEN [rec EXCEPT !.pc = "get_user", !.revoked = TRUE, !.ttl = 0]
          ELSE Finish(rec, "failed to revoke old refresh token"))
    ELSE Finish([rec EXCEPT !.revoked = (outcome = "nil")], outcome)

\* EXISTS on the record.
RevokeExists(c) ==
    LET rec == calls[c]
        h == hashToken(rec.tok)
    IN  /\ At(c, "revoke")
        /\ backend = "redis"
        /\ calls' = [calls EXCEPT ![c] =
                        IF h \in DOMAIN rtKeys
                        THEN [rec EXCEPT !.pc = "revoke_ttl"]
                        ELSE RevokeReturn(rec, "ErrRefreshTokenNotFound")]
        /\ UNCHANGED <<now, backend, gateVars, verifiedLog, users, redisVars, sqlTokens, nextSecret,
                       emailTasks, histVars>>

\* TTL on the record.
RevokeTTL(c) ==
    LET rec == calls[c]
    IN  /\ At(c, "revoke_ttl")
        /\ calls' = [calls EXCEPT ![c] =
                        [rec EXCEPT !.pc = "revoke_set",
                                    !.ttl = RedisTTL(rtKeys, hashToken(rec.tok))]]
        /\ UNCHANGED <<now, backend, gateVars, verifiedLog, users, redisVars, sqlTokens, nextSecret,
                       emailTasks, histVars>>

\* A faulty marker TTL: one tick whatever the token has left.
MarkerTTLOne(ttl) == 1

\* The TTL a revocation marker is written with.
MarkerTTL(ttl) == IF ttl > 0 THEN ttl ELSE FallbackTTL

\* SET marker "1" EX ttl; the write may fail.
RevokeSet(c) ==
    LET rec == calls[c]
        h == hashToken(rec.tok)
    IN  /\ At(c, "revoke_set")
        /\ \/ /\ revokedKeys' = SetEX(revokedKeys, h, MarkerTTL(rec.ttl))
              /\ revokedLog' = revokedLog \cup {h}
              /\ calls' = [calls EXCEPT ![c] = RevokeReturn(rec, "nil")]
           \/ /\ calls' = [calls EXCEPT ![c] = RevokeReturn(rec, "error")]
              /\ UNCHANGED <<revokedKeys, revokedLog>>
        /\ UNCHANGED <<now, backend, gateVars, verifiedLog, users, rtKeys, userTokens, resetKeys,
                       sqlTokens, nextSecret, emailTasks, issued, sent>>

\* Repository.RevokeRefreshToken (SQL): UPDATE ... SET revoked_at = NOW()
\* WHERE token_hash = ?; no row affected is NotFound.
RevokeSql(c) ==
    LET rec == calls[c]
        h == hashToken(rec.tok)
    IN  /\ At(c, "revoke")
        /\ backend = "sql"
        /\ \/ /\ h \in DOMAIN sqlTokens
              /\ sqlTokens' = [sqlTokens EXCEPT ![h].revoked_at = now]
              /\ revokedLog' = revokedLog \cup {h}
              /\ calls' = [calls EXCEPT ![c] = RevokeReturn(rec, "nil")]
           \/ /\ calls' = [calls EXCEPT ![c] =
                              RevokeReturn(rec, IF h \in DOMAIN sqlTokens THEN "error"
                                                ELSE "ErrRefreshTokenNotFound")]
              /\ UNCHANGED <<sqlTokens, revokedLog>>
        /\ UNCHANGED <<now, backend, gateVars, verifiedLog, users, redisVars, nextSecret, emailTasks,
                       issued, sent>>

\* --------------------------------------------------- RevokeAllUserTokens
\* A ResetPassword that hands the failure of RevokeAllUserTokens back to its
\* caller after the password was changed.
RevokeAllReturnSurfacing(rec, outcome) ==
    Finish([rec EXCEPT !.revoked = (outcome = "nil")], outcome)

\* Where a call goes when RevokeAllUserTokens returns: ResetPassword logs a
\* failure and returns nil all the same; a direct caller gets the result.
RevokeAllReturn(rec, outcome) ==
    Finish([rec EXCEPT !.revoked = (outcome = "nil")],
           IF rec.op = "ResetPassword" THEN "nil" ELSE outcome)

\* SMEMBERS on the owner's set, then TTL on each member's record while the
\* SETs are queued on the pipeline.
RevokeAllRead(c) ==
    LET rec == calls[c]
        tokenHashes == IF rec.uid \in DOMAIN userTokens
                       THEN userTokens[rec.uid].members ELSE {}
    IN  /\ At(c, "revoke_all")
        /\ backend = "redis"
        /\ calls' = [calls EXCEPT ![c] =
                        IF tokenHashes = {}
                        THEN RevokeAllReturn(rec, "nil")
                        ELSE [rec EXCEPT !.pc = "revoke_all_exec",
                                         !.pipe = {<<h, MarkerTTL(RedisTTL(rtKeys, h))>> :
                                                      h \in tokenHashes}]]
        /\ UNCHANGED <<now, backend, gateVars, verifiedLog, users, redisVars, sqlTokens, nextSecret,
                       emailTasks, histVars>>

\* A faulty pipeline that runs none of its SETs.
SetMarkersNone(f, cmds) == f

\* The queued SETs that ran.
SetMarkers(f, cmds) ==
    LET hs == {p[1] : p \in cmds}
        ttlOf(h) == (CHOOSE p \in cmds : p[1] = h)[2]
    IN  IF hs = {} THEN f
        ELSE [h \in DOMAIN f \cup hs |->
                 IF h \in hs THEN [val |-> "1", exp |-> now + ttlOf(h)] ELSE f[h]]

\* Ghost: the rotations of uid's tokens that are past their lookup at the
\* moment a RevokeAllUserTokens for uid completes are marked as overtaken.
PastLookup(rec) ==
    /\ rec.op = "Refresh"
    /\ rec.pc \in {"revoke", "revoke_ttl", "revoke_set", "get_user", "store"}
Overtake(cs, uid) ==
    [c \in Calls |-> IF PastLookup(cs[c]) /\ cs[c].uid = uid
                     THEN [cs[c] EXCEPT !.overtaken = TRUE] ELSE cs[c]]

\* pipe.Exec: every SET ran, or Exec failed after some of them did.
RevokeAllExec(c) ==
    LET rec == calls[c]
    IN  /\ At(c, "revoke_all_exec")
        /\ \/ /\ revokedKeys' = SetMarkers(revokedKeys, rec.pipe)
              /\ revokedLog' = revokedLog \cup {p[1] : p \in rec.pipe}
              /\ calls' = Overtake([calls EXCEPT ![c] = RevokeAllReturn(rec, "nil")],
                                   rec.uid)
           \/ /\ \E ran \in SUBSET rec.pipe :
                    revokedKeys' = SetMarkers(revokedKeys, ran)
              /\ calls' = [calls EXCEPT ![c] = RevokeAllReturn(rec, "error")]
              /\ UNCHANGED revokedLog
        /\ UNCHANGED <<now, backend, gateVars, verifiedLog, users, rtKeys, userTokens, resetKeys,
                       sqlTokens, nextSecret, emailTasks, issued, sent>>

\* Repository.RevokeAllUserTokens (SQL): UPDATE ... SET revoked_at = NOW()
\* WHERE user_id = ? AND revoked_at IS NULL.
RevokeAllSql(c) ==
    LET rec == calls[c]
        hit == {h \in DOMAIN sqlTokens :
                   sqlTokens[h].user_id = rec.uid /\ sqlTokens[h].revoked_at = Null}
    IN  /\ At(c, "revoke_all")
        /\ backend = "sql"
        /\ \/ /\ sqlTokens' = [h \in DOMAIN sqlTokens |->
                                 IF h \in hit THEN [sqlTokens[h] EXCEPT !.revoked_at = now]
                                 ELSE sqlTokens[h]]
              /\ revokedLog' = revokedLog \cup hit
              /\ calls' = Overtake([calls EXCEPT ![c] = RevokeAllReturn(rec, "nil")],
                                   rec.uid)
           \/ /\ calls' = [calls EXCEPT ![c] = RevokeAllReturn(rec, "error")]
              /\ UNCHANGED <<sqlTokens, revokedLog>>
        /\ UNCHANGED <<now, backend, gateVars, verifiedLog, users, redisVars, nextSecret, emailTasks,
                       issued, sent>>

\* Repository.CleanupExpiredTokens (SQL): DELETE ... WHERE expires_at < NOW().
\* (RedisRepository.CleanupExpiredTokens does nothing.)
CleanupExpiredTokens ==
    /\ Running
    /\ backend = "sql"
    /\ \E h \in DOMAIN sqlTokens : sqlTokens[h].expires_at < now
    /\ sqlTokens' = Restrict(sqlTokens,
                             {h \in DOMAIN sqlTokens : ~(sqlTokens[h].expires_at < now)})
    /\ UNCHANGED <<now, backend, gateVars, verifiedLog, users, redisVars, calls, nextSecret, emailTasks,
                   histVars>>

\* ------------------------------------------------------------ Service.Login
\* A Login that never looks at EmailVerified.
LoginOutcomeUnchecked(email, password) ==
    LET found == GetByEmail(email)
        u == CHOOSE u \in found : TRUE
    IN  IF email = "" \/ password = "" THEN "ErrInvalidCredentials"
        ELSE IF found = {} THEN "ErrInvalidCredentials"
        ELSE IF ~verifyPassword(users[u].password_hash, password)
             THEN "ErrInvalidCredentials"
        ELSE "ok"

\* A Login that looks at EmailVerified before it compares the password.
LoginOutcomeVerifiedFirst(email, password) ==
    LET found == GetByEmail(email)
        u == CHOOSE u \in found : TRUE
    IN  IF email = "" \/ password = "" THEN "ErrInvalidCredentials"
        ELSE IF found = {} THEN "ErrInvalidCredentials"
        ELSE IF ~users[u].email_verified THEN "ErrEmailNotVerified"
        ELSE IF ~verifyPassword(users[u].password_hash, password)
             THEN "ErrInvalidCredentials"
        ELSE "ok"

LoginOutcome(email, password) ==
    LET found == GetByEmail(email)
        u == CHOOSE u \in found : TRUE
    IN  IF email = "" \/ password = "" THEN "ErrInvalidCredentials"
        ELSE IF found = {} THEN "ErrInvalidCredentials"
        ELSE IF ~verifyPassword(users[u].password_hash, password)
             THEN "ErrInvalidCredentials"
        ELSE IF ~users[u].email_verified THEN "ErrEmailNotVerified"
        ELSE "ok"

\* The calls Login makes, in order, until it returns.
LoginSteps(email, password) ==
    LET found == GetByEmail(email)
        u == CHOOSE u \in found : TRUE
    IN  IF email = "" \/ password = "" THEN <<>>
        ELSE IF found = {} THEN <<"GetByEmail">>
        ELSE IF ~verifyPassword(users[u].password_hash, password)
             THEN <<"GetByEmail", "verifyPassword">>
        ELSE IF ~users[u].email_verified THEN <<"GetByEmail", "verifyPassword">>
        ELSE <<"GetByEmail", "verifyPassword", "generateTokens">>

Login(c, email, password) ==
    LET rec == [IdleCall EXCEPT !.op = "Login"]
        u == CHOOSE u \in GetByEmail(email) : TRUE
    IN  /\ Free(c)
        /\ IF LoginOutcome(email, password) # "ok"
           THEN /\ calls' = [calls EXCEPT ![c] = Finish(rec, LoginOutcome(email, password))]
                /\ UNCHANGED nextSecret
           ELSE /\ CanGenerate
                /\ calls' = [calls EXCEPT ![c] = generateTokens(rec, u)]
                /\ nextSecret' = nextSecret + 1
        /\ UNCHANGED <<now, backend, verifiedLog, users, redisVars, sqlTokens, emailTasks,
                       issued, sent, revokedLog>>

\* ----------------------------------------------- Service.RefreshAccessToken
\* The secrets a caller can present: the refresh secrets handed out so far, or
\* one that was never issued.
Presentable == {i.tok : i \in issued} \cup {ForgedTok}

\* The expiry a token was issued with.
ExpiryOf(tok) ==
    IF \E i \in issued : i.tok = tok
    THEN (CHOOSE i \in issued : i.tok = tok).expires_at ELSE Null

\* A rotation of tok has returned its new pair.
Rotated(tok) == \E i \in issued : i.parent = tok

\* Entry: GetRefreshToken's first store operation.
RefreshAccessToken(c, tok) ==
    LET rec == [IdleCall EXCEPT !.op = "Refresh", !.tok = tok,
                                !.replay = (Rotated(tok) /\ now < ExpiryOf(tok))]
    IN  /\ Free(c)
        /\ tok \in Presentable
        /\ CanGenerate \/ GetFirst(rec).pc = "done"
        /\ calls' = [calls EXCEPT ![c] = GetFirst(rec)]
        /\ UNCHANGED <<now, backend, verifiedLog, users, redisVars, sqlTokens, nextSecret,
                       emailTasks, histVars>>

\* A rotation that takes its revocation back when the user lookup fails.
GetUserRestoring(c) ==
    LET rec == calls[c]
        h == hashToken(rec.tok)
    IN  /\ At(c, "get_user")
        /\ calls' = [calls EXCEPT ![c] = Finish(rec, "failed to get user")]
        /\ revokedKeys' = Del(revokedKeys, h)
        /\ sqlTokens' = IF h \in DOMAIN sqlTokens
                        THEN [sqlTokens EXCEPT ![h].revoked_at = Null] ELSE sqlTokens
        /\ UNCHANGED <<now, backend, gateVars, verifiedLog, users, rtKeys, userTokens,
                       resetKeys, nextSecret, emailTasks, issued, sent, revokedLog>>

\* A rotation that issues the new pair to the first account, whoever owned
\* the token presented.
GetUserFirstAccount(c) ==
    LET rec == calls[c]
    IN  /\ At(c, "get_user")
        /\ calls' = [calls EXCEPT ![c] = generateTokens(rec, 1)]
        /\ nextSecret' = nextSecret + 1
        /\ UNCHANGED <<now, backend, gateVars, verifiedLog, users, redisVars, sqlTokens, emailTasks,
                       issued, sent, revokedLog>>

\* userRepo.GetByID, then generateTokens; the lookup may fail.
GetUser(c) ==
    LET rec == calls[c]
    IN  /\ At(c, "get_user")
        /\ \/ /\ GetByID(rec.uid) # {}
              /\ calls' = [calls EXCEPT ![c] = generateTokens(rec, rec.uid)]
              /\ nextSecret' = nextSecret + 1
           \/ /\ calls' = [calls EXCEPT ![c] = Finish(rec, "failed to get user")]
              /\ UNCHANGED nextSecret
        /\ UNCHANGED <<now, backend, gateVars, verifiedLog, users, redisVars, sqlTokens, emailTasks,
                       issued, sent, revokedLog>>

\* ------------------------------------------------ password-reset repository
\* passwordResetKey hashes the token; the key family is password_reset:<hash>.
passwordResetKey(token) == hashToken(token)

PwLen(password) ==
    CASE password = "" -> 0
      [] password = "short" -> 5
      [] OTHER -> 9

\* --------------------------------------------- Service.RequestPasswordReset
\* Entry: GetByEmail and generateRandomToken; an unknown email returns nil.
RequestPasswordReset(c, email) ==
    LET rec == [IdleCall EXCEPT !.op = "RequestPasswordReset"]
        found == GetByEmail(email)
        u == CHOOSE u \in found : TRUE
    IN  /\ Free(c)
        /\ IF found = {}
           THEN /\ calls' = [calls EXCEPT ![c] = Finish(rec, "nil")]
                /\ UNCHANGED nextSecret
           ELSE /\ CanGenerate
                /\ calls' = [calls EXCEPT ![c] =
                                [rec EXCEPT !.pc = "reset_hset", !.uid = u,
                                            !.newTok = generateRandomToken]]
                /\ nextSecret' = nextSecret + 1
        /\ UNCHANGED <<now, backend, verifiedLog, users, redisVars, sqlTokens, emailTasks,
                       issued, sent, revokedLog>>

\* StorePasswordResetToken, first command: HSET key user_id.
StorePasswordResetHSet(c) ==
    LET rec == calls[c]
    IN  /\ At(c, "reset_hset")
        /\ \/ /\ resetKeys' = HSet(resetKeys, passwordResetKey(rec.newTok),
                                   [user_id |-> rec.uid])
              /\ calls' = [calls EXCEPT ![c] = [rec EXCEPT !.pc = "reset_expire"]]
           \/ /\ calls' = [calls EXCEPT ![c] = Finish(rec, "nil")]
              /\ UNCHANGED resetKeys
        /\ UNCHANGED <<now, backend, gateVars, verifiedLog, users, rtKeys, revokedKeys, userTokens,
                       sqlTokens, nextSecret, emailTasks, histVars>>

\* A RequestPasswordReset that sends the email whatever StorePasswordResetToken
\* returned.
StorePasswordResetExpireAlwaysMails(c) ==
    LET rec == calls[c]
    IN  /\ At(c, "reset_expire")
        /\ \/ resetKeys' = Expire(resetKeys, passwordResetKey(rec.newTok),
                                  passwordResetTokenTTL)
           \/ UNCHANGED resetKeys
        /\ emailTasks' = emailTasks \cup {[kind |-> "reset", tok |-> rec.newTok]}
        /\ calls' = [calls EXCEPT ![c] = Finish(rec, "nil")]
        /\ UNCHANGED <<now, backend, gateVars, verifiedLog, users, rtKeys, revokedKeys, userTokens,
                       sqlTokens, nextSecret, histVars>>

\* StorePasswordResetToken, second command: EXPIRE key 1h; then the goroutine
\* that sends the email is spawned and nil returned.  A failed EXPIRE is logged
\* and nil returned without an email.
StorePasswordResetExpire(c) ==
    LET rec == calls[c]
    IN  /\ At(c, "reset_expire")
        /\ \/ /\ resetKeys' = Expire(resetKeys, passwordResetKey(rec.newTok),
                                     passwordResetTokenTTL)
              /\ emailTasks' = emailTasks \cup {[kind |-> "reset", tok |-> rec.newTok]}
           \/ UNCHANGED <<resetKeys, emailTasks>>
        /\ calls' = [calls EXCEPT ![c] = Finish(rec, "nil")]
        /\ UNCHANGED <<now, backend, gateVars, verifiedLog, users, rtKeys, revokedKeys, userTokens,
                       sqlTokens, nextSecret, histVars>>

\* ---------------------------------------------------- Service.ResetPassword
\* The reset secrets a caller can present: those delivered by email, or one
\* that was never issued.
ResetPresentable ==
    {t.tok : t \in {x \in sent : x.kind = "reset"}} \cup {ForgedTok}

\* Entry: the password checks, then GetPasswordResetToken (HGET).
ResetPassword(c, tok, newPassword) ==
    LET rec == [IdleCall EXCEPT !.op = "ResetPassword", !.tok = tok]
        key == passwordResetKey(tok)
    IN  /\ Free(c)
        /\ tok \in ResetPresentable
        /\ calls' = [calls EXCEPT ![c] =
                IF newPassword = "" THEN Finish(rec, "ErrPasswordRequired")
                ELSE IF PwLen(newPassword) < 8 THEN Finish(rec, "ErrPasswordTooShort")
                ELSE IF key \notin DOMAIN resetKeys
                     THEN Finish(rec, "ErrPasswordResetTokenNotFound")
                ELSE [rec EXCEPT !.pc = "update_password",
                                 !.uid = resetKeys[key].user_id,
                                 !.pw = newPassword,
                                 !.pre = {i.tok : i \in {x \in issued :
                                             x.owner = resetKeys[key].user_id}}]]
        /\ UNCHANGED <<now, backend, verifiedLog, users, redisVars, sqlTokens, nextSecret,
                       emailTasks, histVars>>

\* hashPassword, then userRepo.UpdatePassword; the UPDATE may fail.
UpdatePassword(c) ==
    LET rec == calls[c]
    IN  /\ At(c, "update_password")
        /\ \/ /\ rec.uid \in DOMAIN users
              /\ users' = [users EXCEPT ![rec.uid].password_hash = hashPassword(rec.pw)]
              /\ calls' = [calls EXCEPT ![c] = [rec EXCEPT !.pc = "delete_reset", !.pw = ""]]
           \/ /\ calls' = [calls EXCEPT ![c] = Finish(rec, "failed to update password")]
              /\ UNCHANGED users
        /\ UNCHANGED <<now, backend, gateVars, verifiedLog, redisVars, sqlTokens, nextSecret, emailTasks,
                       histVars>>

\* A deletion that takes every reset key of the user with it.
DeletePasswordResetTokenOfUser(c) ==
    LET rec == calls[c]
    IN  /\ At(c, "delete_reset")
        /\ resetKeys' = Restrict(resetKeys,
                                 {k \in DOMAIN resetKeys : resetKeys[k].user_id # rec.uid})
        /\ calls' = [calls EXCEPT ![c] = [rec EXCEPT !.pc = "revoke_all"]]
        /\ UNCHANGED <<now, backend, gateVars, verifiedLog, users, rtKeys, revokedKeys, userTokens,
                       sqlTokens, nextSecret, emailTasks, histVars>>

\* DeletePasswordResetToken (DEL); a failure is logged and the call goes on
\* to RevokeAllUserTokens.
DeletePasswordResetToken(c) ==
    LET rec == calls[c]
    IN  /\ At(c, "delete_reset")
        /\ \/ resetKeys' = Del(resetKeys, passwordResetKey(rec.tok))
           \/ UNCHANGED resetKeys
        /\ calls' = [calls EXCEPT ![c] = [rec EXCEPT !.pc = "revoke_all"]]
        /\ UNCHANGED <<now, backend, gateVars, verifiedLog, users, rtKeys, revokedKeys, userTokens,
                       sqlTokens, nextSecret, emailTasks, histVars>>

\* --------------------------------------------------------- Service.Register
RegisterOutcome(email, password) ==
    IF email = "" THEN "ErrEmailRequired"
    ELSE IF password = "" THEN "ErrPasswordRequired"
    ELSE IF PwLen(password) < 8 THEN "ErrPasswordTooShort"
    ELSE IF GetByEmail(email) # {} THEN "ErrDuplicateEmail"
    ELSE "ok"

\* user.Repository.Create: the row an INSERT writes.
Create(email, passwordHash, verificationToken) ==
    UserRow(email, passwordHash, FALSE, verificationToken, now)

\* Validation, hashPassword, generateRandomToken, userRepo.Create (the INSERT
\* may fail), and the goroutine that sends the verification email.
Register(c, email, password) ==
    LET rec == [IdleCall EXCEPT !.op = "Register"]
        id == Cardinality(DOMAIN users) + 1
        tok == generateRandomToken
    IN  /\ Free(c)
        /\ IF RegisterOutcome(email, password) # "ok"
           THEN /\ calls' = [calls EXCEPT ![c] =
                                Finish(rec, RegisterOutcome(email, password))]
                /\ UNCHANGED <<users, emailTasks, nextSecret>>
           ELSE /\ CanGenerate
                /\ nextSecret' = nextSecret + 1
                /\ \/ /\ users' = Put(users, id,
                                      Create(email, hashPassword(password), tok))
                      /\ emailTasks' = emailTasks \cup {[kind |-> "verify", tok |-> tok]}
                      /\ calls' = [calls EXCEPT ![c] =
                                      Finish([rec EXCEPT !.uid = id], "user")]
                   \/ /\ calls' = [calls EXCEPT ![c] =
                                      Finish(rec, "failed to create user")]
                      /\ UNCHANGED <<users, emailTasks>>
        /\ UNCHANGED <<now, backend, verifiedLog, redisVars, sqlTokens, issued, sent, revokedLog>>

\* ------------------------------------------------------------ EmailService
\* A send whose failure is handed to the call that spawned it.
SendEmailSurfaced ==
    /\ \E t \in emailTasks :
        /\ emailTasks' = emailTasks \ {t}
        /\ \/ sent' = sent \cup {t} /\ UNCHANGED calls
           \/ /\ UNCHANGED sent
              /\ calls' = [c \in Calls |->
                    IF calls[c].op \in {"Register", "RequestPasswordReset",
                                        "ResendVerificationEmail"}
                    THEN [calls[c] EXCEPT !.res = "failed to send email"]
                    ELSE calls[c]]
    /\ UNCHANGED <<now, backend, gateVars, verifiedLog, users, redisVars, sqlTokens, nextSecret,
                   issued, revokedLog>>

\* A spawned goroutine runs SendVerificationEmail / SendPasswordResetEmail:
\* the secret is delivered, or the failure is logged.
SendEmail ==
    /\ Running
    /\ \E t \in emailTasks :
        /\ emailTasks' = emailTasks \ {t}
        /\ \/ sent' = sent \cup {t}
           \/ UNCHANGED sent
    /\ UNCHANGED <<now, backend, gateVars, verifiedLog, users, redisVars, sqlTokens, calls, nextSecret,
                   issued, revokedLog>>

\* ------------------------------------------------------ Service.VerifyEmail
\* user.Repository.GetByVerificationToken: the unverified rows holding token.
GetByVerificationToken(token) ==
    {u \in DOMAIN users : /\ users[u].email_verification_token = token
                          /\ ~users[u].email_verified}

\* user.Repository.CheckIfTokenAlreadyUsed: a verified row still holds token.
CheckIfTokenAlreadyUsed(token) ==
    \E u \in DOMAIN users : /\ users[u].email_verification_token = token
                            /\ users[u].email_verified

\* A VerifyEmail that does not look at email_verification_sent_at.
VerifyOutcomeUnexpiring(token) ==
    IF GetByVerificationToken(token) = {}
    THEN IF CheckIfTokenAlreadyUsed(token) THEN "ErrEmailAlreadyVerified"
         ELSE "ErrInvalidVerificationToken"
    ELSE "ok"

\* What VerifyEmail answers before it writes anything.
VerifyOutcome(token) ==
    LET found == GetByVerificationToken(token)
        u == CHOOSE u \in found : TRUE
    IN  IF found = {}
        THEN IF CheckIfTokenAlreadyUsed(token) THEN "ErrEmailAlreadyVerified"
             ELSE "ErrInvalidVerificationToken"
        ELSE IF users[u].email_verification_sent_at = Null THEN "ErrTokenExpired"
        ELSE IF now > users[u].email_verification_sent_at + verificationTokenTTL
             THEN "ErrTokenExpired"
        ELSE "ok"

\* The verification secrets a caller can present: those delivered by email,
\* or one that was never issued.
VerifyPresentable ==
    {t.tok : t \in {x \in sent : x.kind = "verify"}} \cup {ForgedTok}

\* Entry: the lookups and the 24h check.
VerifyEmail(c, token) ==
    LET rec == [IdleCall EXCEPT !.op = "VerifyEmail", !.tok = token]
    IN  /\ Free(c)
        /\ token \in VerifyPresentable
        /\ calls' = [calls EXCEPT ![c] =
                IF VerifyOutcome(token) # "ok" THEN Finish(rec, VerifyOutcome(token))
                ELSE [rec EXCEPT !.pc = "mark_verified",
                                 !.uid = CHOOSE u \in GetByVerificationToken(token) : TRUE]]
        /\ UNCHANGED <<now, backend, verifiedLog, users, redisVars, sqlTokens,
                       nextSecret, emailTasks, histVars>>

\* user.Repository.MarkEmailAsVerified: the UPDATE sets email_verified and
\* clears the token and its timestamp; it may fail.
MarkEmailAsVerified(c) ==
    LET rec == calls[c]
    IN  /\ At(c, "mark_verified")
        /\ \/ /\ users' = [users EXCEPT ![rec.uid].email_verified = TRUE,
                                        ![rec.uid].email_verification_token = NoTok,
                                        ![rec.uid].email_verification_sent_at = Null]
              /\ verifiedLog' = verifiedLog \cup {rec.tok}
              /\ calls' = [calls EXCEPT ![c] = Finish(rec, "nil")]
           \/ /\ calls' = [calls EXCEPT ![c] = Finish(rec, "failed to verify email")]
              /\ UNCHANGED <<users, verifiedLog>>
        /\ UNCHANGED <<now, backend, gateVars, redisVars, sqlTokens, nextSecret,
                       emailTasks, histVars>>

\* ------------------------------------------ Service.ResendVerificationEmail
\* Entry: GetByEmail and the verified check, both answered with nil; then a
\* fresh token is generated.
ResendVerificationEmail(c, email) ==
    LET rec == [IdleCall EXCEPT !.op = "ResendVerificationEmail"]
        found == GetByEmail(email)
        u == CHOOSE u \in found : TRUE
    IN  /\ Free(c)
        /\ IF found = {} \/ users[u].email_verified
           THEN /\ calls' = [calls EXCEPT ![c] = Finish(rec, "nil")]
                /\ UNCHANGED nextSecret
           ELSE /\ CanGenerate
                /\ calls' = [calls EXCEPT ![c] =
                                [rec EXCEPT !.pc = "update_token", !.uid = u,
                                            !.newTok = generateRandomToken]]
                /\ nextSecret' = nextSecret + 1
        /\ UNCHANGED <<now, backend, verifiedLog, users, redisVars, sqlTokens,
                       emailTasks, histVars>>

\* A ResendVerificationEmail that hands the failed UPDATE back to its caller.
ResendResultLeaky(updated) ==
    IF updated THEN "nil" ELSE "failed to update verification token"

\* What ResendVerificationEmail returns once UpdateVerificationToken answered:
\* nil, the failure being logged only.
ResendResult(updated) == "nil"

\* An UpdateVerificationToken whose UPDATE does not ask for email_verified =
\* false.
UpdateVerificationTokenUnguarded(c) ==
    LET rec == calls[c]
    IN  /\ At(c, "update_token")
        /\ users' = [users EXCEPT ![rec.uid].email_verification_token = rec.newTok,
                                  ![rec.uid].email_verification_sent_at = now]
        /\ emailTasks' = emailTasks \cup {[kind |-> "verify", tok |-> rec.newTok]}
        /\ calls' = [calls EXCEPT ![c] = Finish(rec, "nil")]
        /\ UNCHANGED <<now, backend, gateVars, verifiedLog, redisVars, sqlTokens,
                       nextSecret, histVars>>

\* user.Repository.UpdateVerificationToken: the UPDATE touches the row only
\* while it is unverified; a failure or no row is logged and nil returned.
\* On success the goroutine that sends the email is spawned.
UpdateVerificationToken(c) ==
    LET rec == calls[c]
    IN  /\ At(c, "update_token")
        /\ \/ /\ ~users[rec.uid].email_verified
              /\ users' = [users EXCEPT ![rec.uid].email_verification_token = rec.newTok,
                                        ![rec.uid].email_verification_sent_at = now]
              /\ emailTasks' = emailTasks \cup {[kind |-> "verify", tok |-> rec.newTok]}
              /\ calls' = [calls EXCEPT ![c] = Finish(rec, ResendResult(TRUE))]
           \/ /\ UNCHANGED <<users, emailTasks>>
              /\ calls' = [calls EXCEPT ![c] = Finish(rec, ResendResult(FALSE))]
        /\ UNCHANGED <<now, backend, gateVars, verifiedLog, redisVars, sqlTokens,
                       nextSecret, histVars>>

\* ------------------------------------------------------ ratelimit.Limiter
emailCooldownKey(email) == <<"ratelimit:email", <<"sha256", email>>>>

\* A key that leaves the purpose out.
ipRateLimitKeyShared(ip, purpose) == "ratelimit:ip:" \o ip

\* Sprintf("ratelimit:ip:%s:%s", ip, purpose).
ipRateLimitKeyWithPurpose(ip, purpose) == "ratelimit:ip:" \o ip \o ":" \o purpose

\* Sorted-set commands.  RecordIPRequest adds the member Sprintf("%d", now)
\* with score now, so a member is its second: ZADD of a second already in the
\* set only rewrites its score.  A sorted set left empty is deleted.
ZAdd(f, k, second) == SAdd(f, k, second)
ZRemRangeByScore(f, k, max) ==
    IF k \notin DOMAIN f THEN f
    ELSE IF {m \in f[k].members : m > max} = {} THEN Del(f, k)
    ELSE [f EXCEPT ![k].members = {m \in @ : m > max}]
ZCard(f, k) == IF k \in DOMAIN f THEN Cardinality(f[k].members) ELSE 0

\* CheckIPRateLimitWithPurpose on the sorted sets f: ZREMRANGEBYSCORE key 0
\* windowStart, then ZCARD; either command may fail.
WindowExceeded(f, ip, purpose) ==
    LET key == ipRateLimitKeyWithPurpose(ip, purpose)
    IN  ZCard(ZRemRangeByScore(f, key, now - ipRateLimitWindow), key) >= ipRateLimitMax

CheckIPOutcomes(f, ip, purpose) ==
    LET key == ipRateLimitKeyWithPurpose(ip, purpose)
        trimmed == ZRemRangeByScore(f, key, now - ipRateLimitWindow)
    IN  {[keys |-> trimmed,
          res |-> IF WindowExceeded(f, ip, purpose) THEN "exceeded" ELSE "ok"],
         [keys |-> f, res |-> "error"],
         [keys |-> trimmed, res |-> "error"]}

\* RecordIPRequestWithPurpose: ZADD, then EXPIRE key window; either may fail.
\* The log keeps the time of every request whose ZADD was applied.
RecordIPOutcomes(f, log, ip, purpose) ==
    LET key == ipRateLimitKeyWithPurpose(ip, purpose)
        added == ZAdd(f, key, now)
    IN  {[keys |-> [added EXCEPT ![key].exp = now + ipRateLimitWindow],
          log |-> Append(log, [key |-> key, at |-> now]), res |-> "nil"],
         [keys |-> f, log |-> log, res |-> "error"],
         [keys |-> added, log |-> Append(log, [key |-> key, at |-> now]),
          res |-> "error"]}

\* CheckEmailCooldown: EXISTS on the marker; the command may fail.
OnCooldown(f, email) == emailCooldownKey(email) \in DOMAIN f
CooldownOutcomes(f, email) ==
    {IF OnCooldown(f, email) THEN "cooldown" ELSE "clear", "error"}

\* SetEmailCooldown: SET key "1" EX 2m; may fail.
SetCooldownOutcomes(f, email, by) ==
    {[keys |-> Put(f, emailCooldownKey(email),
                   [val |-> "1", exp |-> now + emailCooldownDuration, by |-> by]),
      res |-> "nil"],
     [keys |-> f, res |-> "error"]}

\* The limiter called directly.
LimiterCall(op, ip, purpose, email) ==
    [IdleCall EXCEPT !.op = op, !.ip = ip, !.purpose = purpose, !.email = email]

CheckIPRateLimitWithPurpose(c, ip, purpose) ==
    /\ Free(c)
    /\ \E o \in CheckIPOutcomes(ipKeys, ip, purpose) :
          /\ ipKeys' = o.keys
          /\ calls' = [calls EXCEPT ![c] =
                Finish(LimiterCall("CheckIPRateLimitWithPurpose", ip, purpose, ""), o.res)]
    /\ UNCHANGED <<now, backend, cooldownKeys, recorded, guarded, faulted, verifiedLog, users,
                   redisVars, sqlTokens, nextSecret, emailTasks, histVars>>

RecordIPRequestWithPurpose(c, ip, purpose) ==
    /\ Free(c)
    /\ Len(recorded) < MaxRecords
    /\ \E o \in RecordIPOutcomes(ipKeys, recorded, ip, purpose) :
          /\ ipKeys' = o.keys
          /\ recorded' = o.log
          /\ calls' = [calls EXCEPT ![c] =
                Finish(LimiterCall("RecordIPRequestWithPurpose", ip, purpose, ""), o.res)]
    /\ UNCHANGED <<now, backend, cooldownKeys, guarded, faulted, verifiedLog, users,
                   redisVars, sqlTokens, nextSecret, emailTasks, histVars>>

CheckEmailCooldown(c, email) ==
    /\ Free(c)
    /\ \E o \in CooldownOutcomes(cooldownKeys, email) :
          calls' = [calls EXCEPT ![c] =
                      Finish(LimiterCall("CheckEmailCooldown", "", "", email), o)]
    /\ UNCHANGED <<now, backend, gateVars, verifiedLog, users, redisVars, sqlTokens,
                   nextSecret, emailTasks, histVars>>

SetEmailCooldown(c, email) ==
    /\ Free(c)
    /\ \E o \in SetCooldownOutcomes(cooldownKeys, email, "direct") :
          /\ cooldownKeys' = o.keys
          /\ calls' = [calls EXCEPT ![c] =
                Finish(LimiterCall("SetEmailCooldown", "", "", email), o.res)]
    /\ UNCHANGED <<now, backend, ipKeys, recorded, guarded, faulted, verifiedLog, users,
                   redisVars, sqlTokens, nextSecret, emailTasks, histVars>>

\* ------------------------------------------------------------ auth.Handler
\* A handler answers by itself (a rejection), or calls the service and turns
\* what it returns into the response.  The limiter calls a handler makes
\* before the service call are taken in one step with the service's entry.
HandlerCall(op, ip, purpose, email) ==
    [IdleCall EXCEPT !.op = op, !.ip = ip, !.purpose = purpose, !.email = email]

\* The handler answers without calling the service.
Respond(c, rec, code) ==
    /\ calls' = [calls EXCEPT ![c] = Finish(rec, code)]
    /\ UNCHANGED <<now, backend, users, redisVars, sqlTokens, nextSecret,
                   emailTasks, histVars, verifiedLog>>

\* A handler that rejects on a limiter error as on a verdict.
RejectedOnError(res) == res \in {"exceeded", "cooldown", "error"}

\* if err != nil { log } else if exceeded { reject }: what a limiter check
\* answered makes the handler reject the request.
Rejected(res) == res \in {"exceeded", "cooldown"}

\* The limiter call name when it returned an error.
Failed(name, res) == IF res = "error" THEN {name} ELSE {}

\* Register and Login: CheckIPRateLimitWithPurpose, the body, then
\* RecordIPRequestWithPurpose and the service call.  A limiter error is
\* logged and the request goes on.
IPGate(c, rec, wellFormed, Service) ==
    /\ guarded' = TRUE
    /\ UNCHANGED cooldownKeys
    /\ \E chk \in CheckIPOutcomes(ipKeys, rec.ip, rec.purpose) :
          IF Rejected(chk.res)
          THEN /\ ipKeys' = chk.keys
               /\ faulted' = Failed("CheckIPRateLimit", chk.res)
               /\ UNCHANGED recorded
               /\ Respond(c, rec, "too_many_requests")
          ELSE IF ~wellFormed
          THEN /\ ipKeys' = chk.keys
               /\ faulted' = Failed("CheckIPRateLimit", chk.res)
               /\ UNCHANGED recorded
               /\ Respond(c, rec, "invalid_request_body")
          ELSE /\ Len(recorded) < MaxRequests
               /\ \E r \in RecordIPOutcomes(chk.keys, recorded, rec.ip, rec.purpose) :
                     /\ ipKeys' = r.keys
                     /\ recorded' = r.log
                     /\ faulted' = Failed("CheckIPRateLimit", chk.res)
                                      \cup Failed("RecordIPRequest", r.res)
               /\ Service

HandlerRegister(c, ip, wellFormed, email, password) ==
    /\ Free(c)
    /\ IPGate(c, HandlerCall("Handler.Register", ip, "register", email), wellFormed,
              Register(c, email, password))

HandlerLogin(c, ip, wellFormed, email, password) ==
    /\ Free(c)
    /\ IPGate(c, HandlerCall("Handler.Login", ip, "login", email), wellFormed,
              Login(c, email, password))

\* Login taken apart at its two limiter calls, for requests that run side by
\* side on a store that answers every command: CheckIPRateLimitWithPurpose
\* and the body first, then RecordIPRequestWithPurpose and Service.Login,
\* which refuses the credentials without touching a store.
LoginCheck(c, ip, wellFormed, email, password) ==
    LET rec == [HandlerCall("Handler.Login", ip, "login", email) EXCEPT !.pw = password]
    IN  /\ Free(c)
        /\ LoginOutcome(email, password) # "ok"
        /\ guarded' = TRUE
        /\ \E chk \in {o \in CheckIPOutcomes(ipKeys, ip, "login") : o.res # "error"} :
              /\ ipKeys' = chk.keys
              /\ calls' = [calls EXCEPT ![c] =
                    IF Rejected(chk.res) THEN Finish(rec, "too_many_requests")
                    ELSE IF ~wellFormed THEN Finish(rec, "invalid_request_body")
                    ELSE [rec EXCEPT !.pc = "record"]]
        /\ UNCHANGED <<now, backend, cooldownKeys, recorded, faulted, verifiedLog, users,
                       redisVars, sqlTokens, nextSecret, emailTasks, histVars>>

LoginRecord(c) ==
    LET rec == calls[c]
    IN  /\ At(c, "record")
        /\ Len(recorded) < MaxRecords
        /\ \E o \in {x \in RecordIPOutcomes(ipKeys, recorded, rec.ip, rec.purpose) :
                         x.res = "nil"} :
              /\ ipKeys' = o.keys
              /\ recorded' = o.log
        /\ calls' = [calls EXCEPT ![c] = Finish(rec, LoginOutcome(rec.email, rec.pw))]
        /\ UNCHANGED <<now, backend, cooldownKeys, guarded, faulted, verifiedLog, users,
                       redisVars, sqlTokens, nextSecret, emailTasks, histVars>>

\* ForgotPassword and ResendVerificationEmail: the body, CheckIPRateLimit,
\* CheckEmailCooldown, then RecordIPRequest, SetEmailCooldown and the service
\* call, whose result is dropped.  rec.purpose names the handler; the limiter
\* is called with the email alone.
EmailGate(c, rec, wellFormed, Service) ==
    IF ~wellFormed
    THEN /\ guarded' = FALSE
         /\ UNCHANGED <<ipKeys, cooldownKeys, recorded, faulted>>
         /\ Respond(c, rec, "invalid_request_body")
    ELSE /\ guarded' = TRUE
         /\ \E chk \in CheckIPOutcomes(ipKeys, rec.ip, "auth"),
               cd \in CooldownOutcomes(cooldownKeys, rec.email) :
               IF Rejected(chk.res)
               THEN /\ ipKeys' = chk.keys
                    /\ faulted' = Failed("CheckIPRateLimit", chk.res)
                    /\ UNCHANGED <<cooldownKeys, recorded>>
                    /\ Respond(c, rec, "too_many_requests")
               ELSE IF Rejected(cd)
               THEN /\ ipKeys' = chk.keys
                    /\ faulted' = Failed("CheckIPRateLimit", chk.res)
                                     \cup Failed("CheckEmailCooldown", cd)
                    /\ UNCHANGED <<cooldownKeys, recorded>>
                    /\ Respond(c, rec, "cooldown_active")
               ELSE /\ Len(recorded) < MaxRequests
                    /\ \E r \in RecordIPOutcomes(chk.keys, recorded, rec.ip, "auth"),
                          o \in SetCooldownOutcomes(cooldownKeys, rec.email, rec.purpose) :
                          /\ ipKeys' = r.keys
                          /\ recorded' = r.log
                          /\ cooldownKeys' = o.keys
                          /\ faulted' = Failed("CheckIPRateLimit", chk.res)
                                           \cup Failed("CheckEmailCooldown", cd)
                                           \cup Failed("RecordIPRequest", r.res)
                                           \cup Failed("SetEmailCooldown", o.res)
                    /\ Service

HandlerForgotPassword(c, ip, wellFormed, email) ==
    /\ Free(c)
    /\ EmailGate(c, HandlerCall("Handler.ForgotPassword", ip, "forgot-password", email),
                 wellFormed, RequestPasswordReset(c, email))

HandlerResendVerificationEmail(c, ip, wellFormed, email) ==
    /\ Free(c)
    /\ EmailGate(c, HandlerCall("Handler.ResendVerificationEmail", ip,
                                "resend-verification", email),
                 wellFormed, ResendVerificationEmail(c, email))

\* Refresh: the token from the body or the cookie, then RefreshAccessToken.
HandlerRefresh(c, tok) ==
    /\ Free(c)
    /\ guarded' = FALSE
    /\ UNCHANGED <<ipKeys, cooldownKeys, recorded, faulted>>
    /\ IF tok = NoTok
       THEN Respond(c, HandlerCall("Handler.Refresh", "", "", ""), "refresh_token_required")
       ELSE RefreshAccessToken(c, tok)

\* Service.RevokeRefreshToken, called by Logout.
RevokeRefreshToken(c, tok) ==
    /\ Free(c)
    /\ calls' = [calls EXCEPT ![c] =
                    [IdleCall EXCEPT !.op = "Logout", !.tok = tok, !.pc = "revoke"]]
    /\ UNCHANGED <<now, backend, users, redisVars, sqlTokens, nextSecret,
                   emailTasks, histVars, verifiedLog>>

\* Logout: RevokeRefreshToken when a token came with the request; the cookies
\* are cleared and 200 answered whatever it returned.
HandlerLogout(c, tok) ==
    /\ Free(c)
    /\ guarded' = FALSE
    /\ UNCHANGED <<ipKeys, cooldownKeys, recorded, faulted>>
    /\ IF tok = NoTok
       THEN Respond(c, HandlerCall("Handler.Logout", "", "", ""), "logged out")
       ELSE RevokeRefreshToken(c, tok)

\* ClearAuthCookies: both cookies are set again, empty and with MaxAge -1.
accessTokenCookieName == "access_token"
refreshTokenCookieName == "refresh_token"
ClearAuthCookies == {accessTokenCookieName, refreshTokenCookieName}

\* A Logout that answers a failed revocation with an error and keeps the
\* cookies.
LogoutResponseStrict(rec) ==
    IF rec.op = "Handler.Logout" \/ rec.res = "nil"
    THEN [status |-> 200, message |-> "logged out", cleared |-> ClearAuthCookies]
    ELSE [status |-> 500, message |-> "internal_error", cleared |-> {}]

\* What Logout writes once RevokeRefreshToken returned, or was not called:
\* the error is logged, ClearAuthCookies and respondJSON run in every case.
LogoutResponse(rec) ==
    [status |-> 200, message |-> "logged out", cleared |-> ClearAuthCookies]

\* VerifyEmail: the token query parameter, then Service.VerifyEmail.
HandlerVerifyEmail(c, tok) ==
    /\ Free(c)
    /\ guarded' = FALSE
    /\ UNCHANGED <<ipKeys, cooldownKeys, recorded, faulted>>
    /\ IF tok = NoTok
       THEN Respond(c, HandlerCall("Handler.VerifyEmail", "", "", ""),
                    "verification_token_required")
       ELSE VerifyEmail(c, tok)

\* ResetPassword: the body, then Service.ResetPassword.
HandlerResetPassword(c, wellFormed, tok, newPassword) ==
    /\ Free(c)
    /\ guarded' = FALSE
    /\ UNCHANGED <<ipKeys, cooldownKeys, recorded, faulted>>
    /\ IF ~wellFormed
       THEN Respond(c, HandlerCall("Handler.ResetPassword", "", "", ""),
                    "invalid_request_body")
       ELSE ResetPassword(c, tok, newPassword)

\* The status a finished request is answered with.
Status(rec) ==
    CASE rec.res \in {"too_many_requests", "cooldown_active"} -> 429
      [] rec.res \in {"invalid_request_body", "refresh_token_required",
                      "verification_token_required"} -> 400
      [] rec.op \in {"RequestPasswordReset", "ResendVerificationEmail",
                     "Logout", "Handler.Logout"} -> 200
      [] rec.op = "Register" ->
            (CASE rec.res = "user" -> 201
               [] rec.res = "ErrDuplicateEmail" -> 409
               [] rec.res \in {"ErrEmailRequired", "ErrPasswordRequired",
                               "ErrPasswordTooShort"} -> 400
               [] OTHER -> 500)
      [] rec.op = "Login" ->
            (CASE rec.res = "Tokens" -> 200
               [] rec.res = "ErrInvalidCredentials" -> 401
               [] rec.res = "ErrEmailNotVerified" -> 403
               [] OTHER -> 500)
      [] rec.op = "Refresh" ->
            (CASE rec.res = "Tokens" -> 200
               [] rec.res \in {"ErrInvalidToken", "ErrRefreshTokenRevoked",
                               "ErrRefreshTokenExpired"} -> 401
               [] OTHER -> 500)
      [] rec.op = "VerifyEmail" ->
            (CASE rec.res = "nil" -> 200
               [] rec.res \in {"ErrTokenExpired", "ErrEmailAlreadyVerified",
                               "ErrInvalidVerificationToken"} -> 400
               [] OTHER -> 500)
      [] rec.op = "ResetPassword" ->
            (CASE rec.res = "nil" -> 200
               [] rec.res \in {"ErrPasswordResetTokenNotFound", "ErrPasswordRequired",
                               "ErrPasswordTooShort"} -> 400
               [] OTHER -> 500)
      [] OTHER -> 500

\* ------------------------------------------- direct calls of the repository
\* The RefreshTokenRepository interface called directly, one call at a time,
\* with a token the caller supplies and an expiry of its choosing within the
\* configured lifetime.
Quiet == \A c \in Calls : calls[c].pc = "idle"

RepoPresentable == {Tok(n) : n \in 0..nextSecret}

RepoStore(c, uid, expiresAt) ==
    LET rec == [IdleCall EXCEPT !.op = "RepoStore"]
    IN  /\ Free(c)
        /\ Quiet
        /\ Within(MaxDraws)
        /\ calls' = [calls EXCEPT ![c] =
                        BeginStore(rec, uid, generateRandomToken, expiresAt)]
        /\ nextSecret' = nextSecret + 1
        /\ UNCHANGED <<now, backend, gateVars, verifiedLog, users, redisVars, sqlTokens, emailTasks,
                       issued, sent, revokedLog>>

RepoGet(c, tok) ==
    /\ Free(c)
    /\ Quiet
    /\ tok \in RepoPresentable
    /\ calls' = [calls EXCEPT ![c] =
                    GetFirst([IdleCall EXCEPT !.op = "RepoGet", !.tok = tok])]
    /\ UNCHANGED <<now, backend, gateVars, verifiedLog, users, redisVars, sqlTokens, nextSecret,
                   emailTasks, histVars>>

RepoRevoke(c, tok) ==
    /\ Free(c)
    /\ Quiet
    /\ tok \in RepoPresentable
    /\ calls' = [calls EXCEPT ![c] =
                    [IdleCall EXCEPT !.op = "RepoRevoke", !.tok = tok, !.pc = "revoke"]]
    /\ UNCHANGED <<now, backend, gateVars, verifiedLog, users, redisVars, sqlTokens, nextSecret,
                   emailTasks, histVars>>

RepoRevokeAll(c, uid) ==
    /\ Free(c)
    /\ Quiet
    /\ calls' = [calls EXCEPT ![c] =
                    [IdleCall EXCEPT !.op = "RepoRevokeAll", !.uid = uid,
                                     !.pc = "revoke_all",
                                     !.pre = {i.tok : i \in {x \in issued : x.owner = uid}}]]
    /\ UNCHANGED <<now, backend, gateVars, verifiedLog, users, redisVars, sqlTokens, nextSecret,
                   emailTasks, histVars>>

\* ----------------------------------------------------------- specifications
\* The steps of the repository operations a call in flight takes.
StoreSteps(c) ==
    \/ StoreRedis(c)
    \/ StoreSql(c)

RevokeSteps(c) ==
    \/ RevokeExists(c)
    \/ RevokeTTL(c)
    \/ RevokeSet(c)
    \/ RevokeSql(c)

RevokeAllSteps(c) ==
    \/ RevokeAllRead(c)
    \/ RevokeAllExec(c)
    \/ RevokeAllSql(c)

\* Token issuance and rotation: Login, RefreshAccessToken and Logout calls
\* interleaved at every store operation.
Next ==
    \/ Tick
    \/ \E c \in Calls : Return(c)
    \/ CleanupExpiredTokens
    \/ \E c \in Calls :
        \/ \E e \in {"a@x.com", "nobody@x.com"},
              p \in {"password1", "wrongpass"} :
                 Login(c, e, p) /\ UNCHANGED gateVars
        \/ \E t \in Presentable : RefreshAccessToken(c, t) /\ UNCHANGED gateVars
        \/ GetHGetAll(c)
        \/ RevokeSteps(c)
        \/ GetUser(c)
        \/ StoreSteps(c)

Spec == Init /\ [][Next]_vars

\* The repository called directly.
NextRepo ==
    \/ Tick
    \/ \E c \in Calls : Return(c)
    \/ CleanupExpiredTokens
    \/ \E c \in Calls :
        \/ \E u \in SeedUsers, e \in now..(now + RefreshTokenDuration) :
              RepoStore(c, u, e)
        \/ \E t \in RepoPresentable : RepoGet(c, t)
        \/ \E t \in RepoPresentable : RepoRevoke(c, t)
        \/ \E u \in SeedUsers : RepoRevokeAll(c, u)
        \/ GetHGetAll(c)
        \/ RevokeSteps(c)
        \/ StoreSteps(c)
        \/ RevokeAllSteps(c)

SpecRepo == Init /\ [][NextRepo]_vars

\* Accounts: registration, the password-reset flow and the logins whose
\* tokens a reset revokes.
NextAccount ==
    \/ Tick
    \/ \E c \in Calls : Return(c)
    \/ SendEmail
    \/ \E c \in Calls :
        \/ \E e \in {"a@x.com", "b@x.com"},
              p \in {"password1", "password2"} :
                 Within(MaxDraws) /\ Login(c, e, p) /\ UNCHANGED gateVars
        \/ \E e \in {"a@x.com", "nobody@x.com"} :
              Within(MaxDraws) /\ RequestPasswordReset(c, e) /\ UNCHANGED gateVars
        \/ \E t \in ResetPresentable, p \in {"password2", "short"} :
              ResetPassword(c, t, p) /\ UNCHANGED gateVars
        \/ \E e \in {"c@x.com", "a@x.com"}, p \in {"password1"} :
              Within(MaxDraws) /\ Register(c, e, p) /\ UNCHANGED gateVars
        \/ StoreSteps(c)
        \/ StorePasswordResetHSet(c)
        \/ StorePasswordResetExpire(c)
        \/ UpdatePassword(c)
        \/ DeletePasswordResetToken(c)
        \/ RevokeAllSteps(c)

SpecAccount == Init /\ [][NextAccount]_vars

\* Email verification: registration, the verification link, its resend, and
\* the logins it unlocks.
NextVerify ==
    \/ Tick
    \/ \E c \in Calls : Return(c)
    \/ SendEmail
    \/ \E c \in Calls :
        \/ \E e \in {"c@x.com"}, p \in {"password1"} :
              Within(MaxDraws) /\ Register(c, e, p) /\ UNCHANGED gateVars
        \/ \E t \in VerifyPresentable : VerifyEmail(c, t) /\ UNCHANGED gateVars
        \/ MarkEmailAsVerified(c)
        \/ \E e \in {"c@x.com", "a@x.com", "nobody@x.com"} :
              Within(MaxDraws) /\ ResendVerificationEmail(c, e) /\ UNCHANGED gateVars
        \/ UpdateVerificationToken(c)
        \/ \E e \in {"c@x.com", "a@x.com", "nobody@x.com", ""},
              p \in {"password1", "wrongpass"} :
                 Within(MaxDraws) /\ Login(c, e, p) /\ UNCHANGED gateVars
        \/ StoreSteps(c)

SpecVerify == Init /\ [][NextVerify]_vars

\* The limiter called directly by a client for two purposes.
Ips == {"10.0.0.1"}
Purposes == {"auth", "login"}

NextLimiter ==
    \/ Tick
    \/ \E c \in Calls : Return(c)
    \/ \E c \in Calls, ip \in Ips, purpose \in Purposes :
        \/ CheckIPRateLimitWithPurpose(c, ip, purpose)
        \/ RecordIPRequestWithPurpose(c, ip, purpose)
    \/ \E c \in Calls, e \in {"a@x.com", "nobody@x.com"} :
        \/ CheckEmailCooldown(c, e)
        \/ SetEmailCooldown(c, e)

SpecLimiter == Init /\ [][NextLimiter]_vars

\* The limiter called for the purposes of Login and Register from two client
\* addresses, the second one an X-Forwarded-For value that holds a colon.
WindowIps == {"10.0.0.1", "10.0.0.1:login"}
WindowPurposes == {"login", "register"}

NextWindow ==
    \/ Quiet /\ Tick
    \/ \E c \in Calls : Return(c)
    \/ \E c \in Calls, ip \in WindowIps, purpose \in WindowPurposes :
        \/ Quiet /\ CheckIPRateLimitWithPurpose(c, ip, purpose)
        \/ Quiet /\ RecordIPRequestWithPurpose(c, ip, purpose)

SpecWindow == Init /\ [][NextWindow]_vars

\* The token service called directly: tokens are created for two accounts
\* and two lifetimes, kept, and verified at any later time.
TokenLifetimes == {1, 2}

NextPaseto ==
    \/ Tick
    \/ \E c \in Calls : Return(c)
    \/ \E c \in Calls :
        \/ \E u \in SeedUsers, d \in TokenLifetimes :
              PasetoCreate(c, u, SeedEmail(u), d)
        \/ PasetoVerify(c)
        \/ \E t \in ForeignTokens : PasetoVerifyForeign(c, t)

SpecPaseto == Init /\ [][NextPaseto]_vars

\* The three operations that send mail, side by side with the goroutines
\* they spawned.
NextMail ==
    \/ Tick
    \/ \E c \in Calls : Return(c)
    \/ SendEmail
    \/ \E c \in Calls :
        \/ Within(MaxDraws) /\ Register(c, "c@x.com", "password1") /\ UNCHANGED gateVars
        \/ \E e \in {"a@x.com", "nobody@x.com"} :
              Within(MaxDraws) /\ RequestPasswordReset(c, e) /\ UNCHANGED gateVars
        \/ StorePasswordResetHSet(c)
        \/ StorePasswordResetExpire(c)
        \/ \E e \in {"c@x.com", "a@x.com"} :
              Within(MaxDraws) /\ ResendVerificationEmail(c, e) /\ UNCHANGED gateVars
        \/ UpdateVerificationToken(c)

SpecMail == Init /\ [][NextMail]_vars

\* Logout beside the logins whose tokens it revokes, on either store, for
\* as long as it takes a token to expire.
NextLogout ==
    \/ Tick
    \/ \E c \in Calls : Return(c)
    \/ \E c \in Calls :
        \/ Within(MaxDraws) /\ Login(c, "a@x.com", "password1") /\ UNCHANGED gateVars
        \/ \E t \in Presentable \cup {NoTok} : HandlerLogout(c, t)
        \/ StoreSteps(c)
        \/ RevokeSteps(c)

SpecLogout == Init /\ [][NextLogout]_vars

\* Rotation chains of two owners: both seeded accounts log in and their
\* refresh tokens are rotated, every store operation interleaved.
NextRotate ==
    \/ Quiet /\ Tick
    \/ \E c \in Calls : Return(c)
    \/ \E c \in Calls :
        \/ \E e \in {"a@x.com", "b@x.com"} :
              Login(c, e, "password1") /\ UNCHANGED gateVars
        \/ \E t \in Presentable : RefreshAccessToken(c, t) /\ UNCHANGED gateVars
        \/ GetHGetAll(c)
        \/ RevokeSteps(c)
        \/ GetUser(c)
        \/ StoreSteps(c)

SpecRotate == Init /\ [][NextRotate]_vars

\* A password reset beside the rotation of the owner's refresh token: the
\* login and the reset request run alone, then RefreshAccessToken and
\* ResetPassword interleave at every store operation.
NextRace ==
    \/ Quiet /\ Tick
    \/ \E c \in Calls : Return(c)
    \/ Quiet /\ SendEmail
    \/ \E c \in Calls :
        \/ Quiet /\ Login(c, "a@x.com", "password1") /\ UNCHANGED gateVars
        \/ Quiet /\ Within(MaxDraws) /\ RequestPasswordReset(c, "a@x.com")
                 /\ UNCHANGED gateVars
        \/ \E t \in Presentable : RefreshAccessToken(c, t) /\ UNCHANGED gateVars
        \/ \E t \in ResetPresentable :
              ResetPassword(c, t, "password2") /\ UNCHANGED gateVars
        \/ GetHGetAll(c)
        \/ RevokeSteps(c)
        \/ GetUser(c)
        \/ StoreSteps(c)
        \/ StorePasswordResetHSet(c)
        \/ StorePasswordResetExpire(c)
        \/ UpdatePassword(c)
        \/ DeletePasswordResetToken(c)
        \/ RevokeAllSteps(c)

SpecRace == Init /\ [][NextRace]_vars

\* Passwords hashed and verified on their own: the function pair of the
\* service, applied to passwords, salts and stored texts of every shape.
PasswordInputs == {"", "password1", "password2"}
Salts == {<<1>>, <<2>>}
\* Cost parameters <<time, memory, threads>> under which a stored text may have
\* been written: the ones of hashPassword and lighter ones of an older build.
Costs == {<<argon2Time, argon2Memory, argon2Threads>>, <<2, 19456, 1>>}

\* The ways a stored text can be damaged.
Damages == 1 .. 10
Damaged(h, i) ==
    CASE i = 1 -> SubSeq(h, 1, 5)
      [] i = 2 -> h \o <<Field("extra")>>
      [] i = 3 -> <<Field("")>>
      [] i = 4 -> [h EXCEPT ![3] = Field("v=x")]
      [] i = 5 -> [h EXCEPT ![4] = Field("m=x,t=3,p=4")]
      [] i = 6 -> [h EXCEPT ![5] = NotB64]
      [] i = 7 -> [h EXCEPT ![6] = NotB64]
      [] i = 8 -> [h EXCEPT ![4] = CostField(h[4].n[1], 0, h[4].n[3])]
      [] i = 9 -> [h EXCEPT ![4] = CostField(h[4].n[1], h[4].n[2], 0)]
      [] OTHER -> [h EXCEPT ![6] = B64(NoBytes)]

\* hashPassword(password), the salt being the one rand.Read drew.
HashPasswordCall(c, password, salt) ==
    /\ Free(c)
    /\ calls' = [calls EXCEPT ![c] =
            [IdleCall EXCEPT !.op = "hashPassword", !.pc = "hashed", !.pw = password,
                             !.hash = hashPasswordSalted(password, salt)]]
    /\ UNCHANGED <<now, backend, gateVars, verifiedLog, users, redisVars, sqlTokens,
                   nextSecret, emailTasks, histVars>>

\* A password_hash column read back: written for the password under some
\* salt and cost parameters, intact (damage 0) or damaged since.
StoredHash(c, password, salt, cost, damage) ==
    LET h == EncodeHash(password, salt, cost[1], cost[2], cost[3], argon2KeyLen)
    IN  /\ Free(c)
        /\ calls' = [calls EXCEPT ![c] =
                [IdleCall EXCEPT !.op = "password_hash", !.pc = "hashed", !.pw = password,
                                 !.hash = IF damage = 0 THEN h ELSE Damaged(h, damage)]]
        /\ UNCHANGED <<now, backend, gateVars, verifiedLog, users, redisVars, sqlTokens,
                       nextSecret, emailTasks, histVars>>

\* verifyPassword(hash, given), the given password being the hashed one or
\* the hashed one followed by "x".
VerifyPasswordCall(c, extended) ==
    LET rec == calls[c]
        given == IF extended THEN rec.pw \o "x" ELSE rec.pw
    IN  /\ At(c, "hashed")
        /\ \E res \in verifyPasswordOutcomes(rec.hash, given) :
              calls' = [calls EXCEPT ![c] =
                  [Finish(rec, res) EXCEPT !.pw = rec.pw, !.given = given]]
        /\ UNCHANGED <<now, backend, gateVars, verifiedLog, users, redisVars, sqlTokens,
                       nextSecret, emailTasks, histVars>>

NextPassword ==
    \/ \E c \in Calls : Return(c)
    \/ \E c \in Calls :
        \/ \E p \in PasswordInputs, s \in Salts : HashPasswordCall(c, p, s)
        \/ \E p \in PasswordInputs, s \in Salts, k \in Costs, d \in {0} \cup Damages :
              StoredHash(c, p, s, k, d)
        \/ \E x \in BOOLEAN : VerifyPasswordCall(c, x)

SpecPassword == Init /\ [][NextPassword]_vars

\* Protected routes beside the operations that end a session: one request at
\* a time logs in, refreshes, logs out, asks for and performs a password
\* reset, and presents an access token to the middleware.
NextAccess ==
    \/ Quiet /\ Tick
    \/ \E c \in Calls : Return(c)
    \/ Quiet /\ SendEmail
    \/ \E c \in Calls :
        \/ \E p \in {"password1", "password2"} :
              Quiet /\ Within(MaxDraws) /\ Login(c, "a@x.com", p) /\ UNCHANGED gateVars
        \/ \E t \in Presentable :
              Quiet /\ Within(MaxDraws) /\ RefreshAccessToken(c, t) /\ UNCHANGED gateVars
        \/ \E t \in Presentable :
              Quiet /\ RevokeRefreshToken(c, t) /\ UNCHANGED gateVars
        \/ Quiet /\ Within(MaxDraws) /\ RequestPasswordReset(c, "a@x.com")
                 /\ UNCHANGED gateVars
        \/ \E t \in ResetPresentable :
              Quiet /\ ResetPassword(c, t, "password2") /\ UNCHANGED gateVars
        \/ \E t \in IssuedAccess \cup ForeignTokens \cup {NoAccess} :
              Quiet /\ RequireAuth(c, t)
        \/ GetHGetAll(c)
        \/ RevokeSteps(c)
        \/ GetUser(c)
        \/ StoreSteps(c)
        \/ StorePasswordResetHSet(c)
        \/ StorePasswordResetExpire(c)
        \/ UpdatePassword(c)
        \/ DeletePasswordResetToken(c)
        \/ RevokeAllSteps(c)

SpecAccess == Init /\ [][NextAccess]_vars

\* The server as main wires it: refresh tokens in Redis.
InitHandler == Init /\ backend = "redis"

\* The account entry points, one request at a time, with the service calls
\* and store operations each one leads to: register, verify-email,
\* forgot-password, reset-password and resend-verification.
NextGate ==
    \/ Quiet /\ now < MaxGateTime /\ Tick
    \/ \E c \in Calls : Return(c)
    \/ Quiet /\ SendEmail
    \/ \E c \in Calls, ip \in Ips, wellFormed \in BOOLEAN :
        \/ Quiet /\ Within(MaxDraws)
                 /\ HandlerRegister(c, ip, wellFormed, "c@x.com", "password1")
        \/ \E e \in {"a@x.com", "nobody@x.com"} :
              Quiet /\ Within(MaxDraws) /\ HandlerForgotPassword(c, ip, wellFormed, e)
        \/ \E e \in {"a@x.com", "c@x.com", "nobody@x.com"} :
              Quiet /\ Within(MaxDraws)
                    /\ HandlerResendVerificationEmail(c, ip, wellFormed, e)
        \/ \E t \in ResetPresentable, p \in {"password2", "short"} :
              Quiet /\ HandlerResetPassword(c, wellFormed, t, p)
    \/ \E c \in Calls :
        \/ \E t \in VerifyPresentable \cup {NoTok} : Quiet /\ HandlerVerifyEmail(c, t)
        \/ MarkEmailAsVerified(c)
        \/ UpdateVerificationToken(c)
        \/ StorePasswordResetHSet(c)
        \/ StorePasswordResetExpire(c)
        \/ UpdatePassword(c)
        \/ DeletePasswordResetToken(c)
        \/ RevokeAllRead(c)

SpecGate == InitHandler /\ [][NextGate]_vars

\* The session entry points, one request at a time: login, refresh, logout.
NextSession ==
    \/ Quiet /\ now < MaxGateTime /\ Tick
    \/ \E c \in Calls : Return(c)
    \/ \E c \in Calls, ip \in Ips, wellFormed \in BOOLEAN,
          e \in {"a@x.com", "nobody@x.com"}, p \in {"password1", "wrongpass"} :
              Quiet /\ Within(MaxDraws) /\ HandlerLogin(c, ip, wellFormed, e, p)
    \/ \E c \in Calls :
        \/ \E t \in Presentable \cup {NoTok} : Quiet /\ HandlerRefresh(c, t)
        \/ \E t \in Presentable \cup {NoTok} : Quiet /\ HandlerLogout(c, t)
        \/ GetHGetAll(c)
        \/ RevokeExists(c)
        \/ RevokeTTL(c)
        \/ RevokeSet(c)
        \/ GetUser(c)
        \/ StoreRedis(c)

SpecSession == InitHandler /\ [][NextSession]_vars

\* Login requests of one address handled side by side.
NextAdmit ==
    \/ Tick
    \/ \E c \in Calls : Return(c)
    \/ \E c \in Calls :
        \/ \E ip \in Ips, wellFormed \in BOOLEAN, e \in {"a@x.com", "nobody@x.com"} :
              LoginCheck(c, ip, wellFormed, e, "wrongpass")
        \/ LoginRecord(c)

SpecAdmit == InitHandler /\ [][NextAdmit]_vars

\* ------------------------------------------------------------- observations
\* What a lookup of tok answers at this instant: the Redis repository returns
\* ErrRefreshTokenRevoked; the SQL repository returns a row on which IsRevoked
\* holds, which RefreshAccessToken turns into ErrRefreshTokenRevoked.
ReadsRevoked(tok) ==
    LET h == hashToken(tok)
    IN  IF backend = "redis"
        THEN RedisLookup(h) = "ErrRefreshTokenRevoked"
        ELSE h \in DOMAIN sqlTokens /\ IsRevoked(SqlToken(h))

\* StoreRefreshToken has written everything it writes for tok.
Stored(tok, uid) ==
    LET h == hashToken(tok)
    IN  IF backend = "redis"
        THEN /\ h \in DOMAIN rtKeys
             /\ rtKeys[h].exp # NoTTL
             /\ uid \in DOMAIN userTokens
             /\ h \in userTokens[uid].members
        ELSE h \in DOMAIN sqlTokens

\* Every bearer secret handed to a caller or delivered by email.
HandedOut == {i.tok : i \in issued} \cup {t.tok : t \in sent}

\* Every key and value the stores hold that could carry a secret.
Persisted ==
    DOMAIN rtKeys \cup DOMAIN revokedKeys \cup DOMAIN resetKeys \cup DOMAIN sqlTokens
    \cup UNION {userTokens[u].members : u \in DOMAIN userTokens}
    \cup {users[u].email_verification_token : u \in DOMAIN users}

\* ------------------------------------------------------------------- claims
\* C1: of the RefreshAccessToken calls that present the same secret, however
\* their store operations interleave, at most one returns a token pair.
C1_AtMostOneRotation ==
    \A i, j \in issued : (i.parent # NoTok /\ i.parent = j.parent) => i = j

\* C2: a RefreshAccessToken(s) made after a rotation of s has returned its
\* pair, and before s expires, fails with ErrRefreshTokenRevoked at its first
\* store operation and draws no new token.
C2_ReplayRejected ==
    \A c \in Calls :
        (calls[c].op = "Refresh" /\ calls[c].replay) =>
            /\ calls[c].pc = "done"
            /\ calls[c].res = "ErrRefreshTokenRevoked"
            /\ calls[c].newTok = NoTok

C2_Witness ==
    \E c \in Calls :
        /\ calls[c].op = "Refresh"
        /\ calls[c].replay
        /\ calls[c].res = "ErrRefreshTokenRevoked"
        /\ now > 0

\* C3: a RefreshAccessToken call draws and stores a new refresh token only
\* after the revocation of the presented token has completed; a call whose
\* revoke failed returns that error, has drawn no token and returns none.
C3_RevokeBeforeReissue ==
    /\ \A c \in Calls :
          calls[c].op = "Refresh" =>
            /\ (calls[c].newTok # NoTok \/ calls[c].pc \in {"get_user", "store"}) =>
                  (calls[c].revoked /\ hashToken(calls[c].tok) \in revokedLog)
            /\ calls[c].res = "failed to revoke old refresh token" =>
                  (calls[c].newTok = NoTok /\ ~calls[c].revoked)
    /\ \A i \in issued : i.parent # NoTok => hashToken(i.parent) \in revokedLog

C3_Witness ==
    \E c \in Calls :
        /\ calls[c].op = "Refresh"
        /\ calls[c].res = "failed to revoke old refresh token"
        /\ \E i \in issued : i.tok = calls[c].tok

\* C4: when RevokeAllUserTokens(owner) has returned nil, a lookup answers
\* Revoked for every token stored for that owner before the call whose
\* expiresAt has not passed.
C4_RevokeAllCoversOwner ==
    \A c \in Calls :
        (calls[c].op = "RepoRevokeAll" /\ calls[c].pc = "done" /\ calls[c].res = "nil") =>
            \A t \in calls[c].pre : now < ExpiryOf(t) => ReadsRevoked(t)

C7_GetRefreshTokenOutcome ==
    [][\A c \in Calls :
          (backend = "redis" /\ calls'[c].op = "RepoGet" /\ calls[c].pc # "done") =>
              LET h == hashToken(calls'[c].tok)
              IN  /\ (calls[c].pc = "idle" /\ h \in DOMAIN revokedKeys) =>
                        (calls'[c].pc = "done" /\ calls'[c].res = "ErrRefreshTokenRevoked")
                  /\ (calls[c].pc = "idle" /\ h \notin DOMAIN revokedKeys) =>
                        calls'[c].pc = "get_hgetall"
                  /\ (calls[c].pc = "get_hgetall" /\ calls'[c].pc = "done") =>
                        calls'[c].res =
                            IF h \notin DOMAIN rtKeys THEN "ErrRefreshTokenNotFound"
                            ELSE IF now >= rtKeys[h].expires_at
                                 THEN "ErrRefreshTokenExpired"
                            ELSE "Token"]_vars

\* C8: RefreshAccessToken goes on to revoke and reissue only for a token
\* whose revokedAt is null and for which now < expiresAt at the validation.
C8_RotatesOnlyBeforeExpiry ==
    [][\A c \in Calls :
          (calls'[c].op = "Refresh" /\ calls'[c].pc = "revoke" /\ calls[c].pc # "revoke") =>
              now < calls'[c].exp]_vars

\* C9: a Login or RefreshAccessToken call returns a pair only on the step at
\* which StoreRefreshToken wrote the whole record for the returned secret;
\* when the store fails the call returns the error and hands out nothing.
C9_PairOnlyAfterStore ==
    [][\A c \in Calls :
          (calls[c].op \in {"Login", "Refresh"} /\ calls[c].pc # "done"
                /\ calls'[c].pc = "done") =>
              IF calls'[c].res = "Tokens"
              THEN /\ calls[c].pc = "store"
                   /\ Stored(calls[c].newTok, calls[c].uid)'
                   /\ calls[c].newTok \in {i.tok : i \in issued'}
              ELSE issued' = issued]_vars

C9_Witness ==
    \E c \in Calls :
        /\ calls[c].op \in {"Login", "Refresh"}
        /\ calls[c].res = "failed to generate tokens"
        /\ calls[c].newTok # NoTok
        /\ calls[c].newTok \notin {i.tok : i \in issued}

\* C10: nothing the stores hold equals a bearer secret that was handed to a
\* caller or sent by email.
C10_OnlyHashesPersisted == Persisted \cap HandedOut = {}

\* A ResetPassword call that got past GetPasswordResetToken with its secret:
\* it can no longer return ErrPasswordResetTokenNotFound.
PastResetLookup(d, tok) ==
    /\ calls[d].op = "ResetPassword"
    /\ calls[d].tok = tok
    /\ calls[d].pc \in {"update_password", "delete_reset", "revoke_all",
                        "revoke_all_exec"}

\* C11: when a ResetPassword call returns success, its secret is gone from
\* the reset store (so a later call gets ErrPasswordResetTokenNotFound) and
\* no other call holding the same secret has got past the lookup.
C11_ResetSecretSingleUse ==
    [][\A c \in Calls :
          (calls[c].op = "ResetPassword" /\ calls[c].pc # "done"
                /\ calls'[c].pc = "done" /\ calls'[c].res = "nil") =>
              /\ passwordResetKey(calls[c].tok) \notin DOMAIN resetKeys'
              /\ \A d \in Calls \ {c} : ~PastResetLookup(d, calls[c].tok)']_vars

\* C12: VerifyEmail called with a token that an earlier VerifyEmail consumed
\* returns ErrEmailAlreadyVerified; called with a token that was never issued
\* it returns ErrInvalidVerificationToken.
C12_ConsumedVersusInvalid ==
    [][\A c \in Calls :
          (calls[c].pc = "idle" /\ calls'[c].op = "VerifyEmail") =>
              /\ calls'[c].tok \in verifiedLog =>
                    (calls'[c].pc = "done" /\ calls'[c].res = "ErrEmailAlreadyVerified")
              /\ calls'[c].tok = ForgedTok =>
                    (calls'[c].pc = "done"
                        /\ calls'[c].res = "ErrInvalidVerificationToken")]_vars

\* The passwords and emails the callers of Login try.
TriedPasswords == {"password1", "password2", "wrongpass", ""}
TriedEmails == {"a@x.com", "b@x.com", "c@x.com", "nobody@x.com", ""}

\* The users a refresh token is stored for, handed out to, or about to be
\* stored for.
TokenOwners ==
    {i.owner : i \in issued}
        \cup {rtKeys[h].user_id : h \in DOMAIN rtKeys}
        \cup {sqlTokens[h].user_id : h \in DOMAIN sqlTokens}
        \cup {calls[c].uid : c \in {d \in Calls : calls[d].op = "Login"
                                                  /\ calls[d].pc = "store"}}

\* C13: every refresh token stored or handed out belongs to a user whose
\* email is verified, and Login with the correct password of an unverified
\* account answers ErrEmailNotVerified.
C13_NoTokenForUnverified ==
    /\ \A u \in TokenOwners : users[u].email_verified
    /\ \A u \in DOMAIN users, p \in TriedPasswords :
          (~users[u].email_verified /\ p # ""
                /\ verifyPassword(users[u].password_hash, p)) =>
              LoginOutcome(users[u].email, p) = "ErrEmailNotVerified"

\* A user who registered, verified the email and then logged in holds a token.
C13_Witness ==
    \E i \in issued :
        /\ i.owner \notin SeedUsers
        /\ users[i.owner].email_verified
        /\ verifiedLog # {}

\* The password stored for email is the one presented.
PasswordMatches(email, password) ==
    \E u \in GetByEmail(email) : users[u].password_hash = hashPassword(password)

\* C14: Login answers ErrInvalidCredentials for an empty email or password,
\* for an unknown email, and for a known email with a wrong password, verified
\* or not; it answers ErrEmailNotVerified only when the password is correct.
C14_IndistinguishableRejection ==
    \A e \in TriedEmails, p \in TriedPasswords :
        /\ (e = "" \/ p = "" \/ GetByEmail(e) = {} \/ ~PasswordMatches(e, p)) =>
              LoginOutcome(e, p) = "ErrInvalidCredentials"
        /\ LoginOutcome(e, p) = "ErrEmailNotVerified" =>
              (e # "" /\ p # "" /\ PasswordMatches(e, p))

\* A Login was rejected with ErrInvalidCredentials while an unverified
\* account exists whose wrong-password Login gets that same answer.
C14_Witness ==
    /\ \E c \in Calls : calls[c].op = "Login" /\ calls[c].res = "ErrInvalidCredentials"
    /\ \E u \in DOMAIN users :
          /\ ~users[u].email_verified
          /\ LoginOutcome(users[u].email, "wrongpass") = "ErrInvalidCredentials"
          /\ LoginOutcome(users[u].email, "password1") = "ErrEmailNotVerified"

\* C15: Login makes the same calls, the password derivation and comparison
\* among them, for an unknown email as for a known email whose password is
\* wrong.
C15_SameStepsForUnknownUser ==
    \A e1, e2 \in TriedEmails \ {""}, p \in TriedPasswords \ {""} :
        (GetByEmail(e1) = {} /\ GetByEmail(e2) # {} /\ ~PasswordMatches(e2, p)) =>
            /\ LoginSteps(e1, p) = LoginSteps(e2, p)
            /\ \E i \in DOMAIN LoginSteps(e1, p) : LoginSteps(e1, p)[i] = "verifyPassword"

\* C16: every RequestPasswordReset call returns nil, and every call, for a
\* registered email or not, goes on from the lookup to generate and store a
\* token rather than returning at once.
C16_ResetRequestUniform ==
    [][\A c \in Calls :
          /\ (calls'[c].op = "RequestPasswordReset" /\ calls'[c].pc = "done") =>
                calls'[c].res = "nil"
          /\ (calls[c].pc = "idle" /\ calls'[c].op = "RequestPasswordReset") =>
                calls'[c].pc = "reset_hset"]_vars

\* How many RecordIPRequest calls for key were applied with a time inside
\* the window that ends now.
RecordedInWindow(key) ==
    Cardinality({i \in DOMAIN recorded :
                    recorded[i].key = key /\ recorded[i].at > now - ipRateLimitWindow})

\* C18: a CheckIPRateLimitWithPurpose that answers reports exceeded when max
\* or more RecordIPRequestWithPurpose calls for the same (ip, purpose) fall
\* inside the current window, wherever their seconds lie, and reports not
\* exceeded when none does.
C18_ExceededAfterMaxRecords ==
    [][\A c \in Calls :
          (calls[c].pc = "idle" /\ calls'[c].op = "CheckIPRateLimitWithPurpose"
                /\ calls'[c].res # "error") =>
              LET key == ipRateLimitKeyWithPurpose(calls'[c].ip, calls'[c].purpose)
              IN  /\ RecordedInWindow(key) >= ipRateLimitMax => calls'[c].res = "exceeded"
                  /\ RecordedInWindow(key) = 0 => calls'[c].res = "ok"]_vars

\* The requests ForgotPassword and ResendVerificationEmail answer themselves,
\* and the service calls they make.
EmailGated == {"Handler.ForgotPassword", "Handler.ResendVerificationEmail"}
EmailServices == {"RequestPasswordReset", "ResendVerificationEmail"}

\* C17: ForgotPassword and ResendVerificationEmail reject a request only for
\* its body or for what the limiter holds (the per-IP count, the cooldown
\* marker of the email); every request they pass on to the service is
\* answered 200, and the service call returns nil, whether or not the email
\* is registered or verified and whether or not the token write and the
\* email delivery succeed.
C17_UniformResponse ==
    [][\A c \in Calls :
          /\ (calls[c].pc = "idle" /\ calls'[c].op \in EmailGated) =>
                LET key == ipRateLimitKeyWithPurpose(calls'[c].ip, "auth")
                    counted == ZCard(ZRemRangeByScore(ipKeys, key, now - ipRateLimitWindow),
                                     key)
                IN  /\ calls'[c].res \in {"invalid_request_body", "too_many_requests",
                                          "cooldown_active"}
                    /\ calls'[c].res = "too_many_requests" => counted >= ipRateLimitMax
                    /\ calls'[c].res = "cooldown_active" =>
                          OnCooldown(cooldownKeys, calls'[c].email)
                    /\ users' = users /\ resetKeys' = resetKeys /\ emailTasks' = emailTasks
          /\ (calls[c].pc # "done" /\ calls'[c].pc = "done"
                    /\ calls'[c].op \in EmailServices) =>
                (calls'[c].res = "nil" /\ Status(calls'[c]) = 200)]_vars

\* A resend for an unverified account whose UpdateVerificationToken failed
\* was answered 200 all the same.
C17_Witness ==
    \E c \in Calls :
        /\ calls[c].pc = "done"
        /\ calls[c].op = "ResendVerificationEmail"
        /\ calls[c].newTok # NoTok
        /\ users[calls[c].uid].email_verification_token # calls[c].newTok
        /\ ~users[calls[c].uid].email_verified
        /\ Status(calls[c]) = 200

\* The calls into the service.
ServiceOps ==
    {"Register", "Login", "Refresh", "Logout", "VerifyEmail",
     "RequestPasswordReset", "ResetPassword", "ResendVerificationEmail"}

\* C19: whenever a request enters the service, its handler has made an
\* abuse-mitigation check first.
C19_CheckBeforeService ==
    [][\A c \in Calls :
          (calls[c].pc = "idle" /\ calls'[c].op \in ServiceOps) => guarded']_vars

\* C20: a request is rejected for a cooldown only when the marker of its
\* email was set by a request of the same purpose.
C20_CooldownPerPurpose ==
    [][\A c \in Calls :
          (calls[c].pc = "idle" /\ calls'[c].res = "cooldown_active") =>
              cooldownKeys[emailCooldownKey(calls'[c].email)].by = calls'[c].purpose]_vars

\* C21: a RecordIPRequestWithPurpose for (ip, p1) leaves the verdict of
\* CheckIPRateLimitWithPurpose unchanged for every other purpose of the same
\* address and for every other address.
C21_CountersIndependent ==
    [][\A c \in Calls :
          (calls[c].pc = "idle" /\ calls'[c].op = "RecordIPRequestWithPurpose") =>
              \A ip \in WindowIps, p \in WindowPurposes :
                  <<ip, p>> # <<calls'[c].ip, calls'[c].purpose>> =>
                      WindowExceeded(ipKeys', ip, p) = WindowExceeded(ipKeys, ip, p)]_vars

\* A recorded request has filled the window of one (ip, purpose) while the
\* other purpose of that address and the other address stay below the limit.
C21_Witness ==
    \E c \in Calls :
        /\ calls[c].pc = "done"
        /\ calls[c].op = "RecordIPRequestWithPurpose"
        /\ calls[c].res = "nil"
        /\ WindowExceeded(ipKeys, calls[c].ip, calls[c].purpose)
        /\ \A ip \in WindowIps, p \in WindowPurposes :
              <<ip, p>> # <<calls[c].ip, calls[c].purpose>> =>
                  ~WindowExceeded(ipKeys, ip, p)

C23_VerificationWindow ==
    [][\A c \in Calls :
          /\ (calls[c].pc = "idle" /\ calls'[c].op = "VerifyEmail") =>
                LET holders == {u \in DOMAIN users :
                                   /\ users[u].email_verification_token = calls'[c].tok
                                   /\ ~users[u].email_verified}
                    fresh == {u \in holders :
                                 /\ users[u].email_verification_sent_at # Null
                                 /\ now - users[u].email_verification_sent_at
                                       <= verificationTokenTTL}
                IN  /\ calls'[c].pc = "mark_verified" => calls'[c].uid \in fresh
                    /\ (holders # {} /\ fresh = {}) =>
                          (calls'[c].pc = "done" /\ calls'[c].res = "ErrTokenExpired")
                    /\ holders = {} =>
                          /\ calls'[c].pc = "done"
                          /\ calls'[c].res \in {"ErrInvalidVerificationToken",
                                                "ErrEmailAlreadyVerified"}
                    /\ users' = users
          /\ (calls[c].pc = "update_token" /\ calls'[c].pc = "done" /\ users' # users) =>
                LET u == calls[c].uid
                    old == users[u].email_verification_token
                IN  /\ users'[u].email_verification_token = calls[c].newTok
                    /\ users'[u].email_verification_sent_at = now
                    /\ ~users'[u].email_verified
                    /\ old # calls[c].newTok
                    /\ \A v \in DOMAIN users' :
                          users'[v].email_verification_token # old]_vars

\* A VerifyEmail succeeded with a token a resend had stored, later than the
\* TTL of any token issued at registration allows.
C23_Witness ==
    \E c \in Calls :
        /\ calls[c].pc = "done"
        /\ calls[c].op = "VerifyEmail"
        /\ calls[c].res = "nil"
        /\ calls[c].tok = Tok(2)
        /\ [kind |-> "verify", tok |-> Tok(1)] \in sent \cup emailTasks
        /\ users[calls[c].uid].email_verified
        /\ now > verificationTokenTTL

\* The reset secrets handed to the mailer, delivered or not yet.
HandedOutResets == {t.tok : t \in {x \in sent \cup emailTasks : x.kind = "reset"}}

\* C24: the key of a reset secret handed to the mailer carries a TTL that ends
\* no later than passwordResetTokenTTL from now and before which the key is
\* gone from the store; the TTL is set to now + passwordResetTokenTTL when
\* the secret is stored and no step changes it afterwards; and a
\* ResetPassword with an acceptable new password whose secret has no key is
\* answered ErrPasswordResetTokenNotFound without changing an account.
C24_ResetTokenLifetime ==
    /\ [](\A tok \in HandedOutResets :
            LET k == passwordResetKey(tok)
            IN  k \in DOMAIN resetKeys =>
                    /\ resetKeys[k].exp # NoTTL
                    /\ now < resetKeys[k].exp
                    /\ resetKeys[k].exp <= now + passwordResetTokenTTL)
    /\ [][/\ \A k \in DOMAIN resetKeys \cap DOMAIN resetKeys' :
                IF resetKeys[k].exp # NoTTL
                THEN resetKeys'[k].exp = resetKeys[k].exp
                ELSE resetKeys'[k].exp \in {NoTTL, now + passwordResetTokenTTL}
          /\ \A c \in Calls :
                (calls[c].pc = "idle" /\ calls'[c].op = "ResetPassword") =>
                    /\ users' = users
                    /\ resetKeys' = resetKeys
                    /\ (/\ passwordResetKey(calls'[c].tok) \notin DOMAIN resetKeys
                        /\ calls'[c].res \notin {"ErrPasswordRequired",
                                                 "ErrPasswordTooShort"}) =>
                          /\ calls'[c].pc = "done"
                          /\ calls'[c].res = "ErrPasswordResetTokenNotFound"]_vars

\* A delivered reset secret was presented after its TTL had passed, with an
\* acceptable password, and the call was answered ErrPasswordResetTokenNotFound.
C24_Witness ==
    \E c \in Calls :
        /\ calls[c].pc = "done"
        /\ calls[c].op = "ResetPassword"
        /\ calls[c].tok \in HandedOutResets
        /\ calls[c].res = "ErrPasswordResetTokenNotFound"
        /\ \A u \in DOMAIN users : users[u].password_hash = hashPassword(SeedPassword)

\* C25: a token made by CreateToken(id, email, ttl) and verified t seconds
\* later yields the id, the email, the issue time and the expiry when
\* t < ttl, and ErrExpiredToken when t >= ttl.
C25_RoundTrip ==
    [][\A c \in Calls :
          (calls[c].pc = "holding" /\ calls'[c].pc = "done") =>
              LET rec == calls[c]
                  t == now - rec.at
              IN  /\ t < rec.ttl =>
                        /\ calls'[c].res = "claims"
                        /\ calls'[c].claims =
                              [user_id |-> UuidString(rec.uid), email |-> rec.email,
                               iat |-> rec.at, exp |-> rec.at + rec.ttl]
                  /\ t >= rec.ttl => calls'[c].res = "ErrExpiredToken"]_vars

\* C26: an access token returned to a caller is accepted by VerifyToken at
\* every instant before its expiry, with the claims it was made with; no
\* step that leaves the clock alone changes what VerifyToken answers for it;
\* and the middleware lets a request carrying it through for as long.
C26_AccessTokenUnaffected ==
    /\ [](\A i \in issued :
            now < i.access.claims.exp =>
                /\ VerifyToken(i.access) = [err |-> "nil", claims |-> i.access.claims]
                /\ Authenticate(i.access) = "next")
    /\ [][/\ now' = now =>
                \A i \in issued : (VerifyToken(i.access))' = VerifyToken(i.access)
          /\ \A c \in Calls :
                (calls[c].pc = "idle" /\ calls'[c].op = "RequireAuth"
                      /\ calls'[c].access \in IssuedAccess
                      /\ now < calls'[c].access.claims.exp) =>
                    calls'[c].res = "next"]_vars

\* The middleware let a request through whose access token was returned with
\* a refresh token that has since been revoked.
C26_Witness ==
    \E c \in Calls, i \in issued :
        /\ calls[c].pc = "done"
        /\ calls[c].op = "RequireAuth"
        /\ calls[c].access = i.access
        /\ calls[c].res = "next"
        /\ ReadsRevoked(i.tok)

\* C27: verifyPassword answers false, and nothing else, for every stored text
\* that is malformed: a number of fields other than six, a version or cost
\* field that does not parse, a salt or key that is not base64, a time or
\* parallelism cost of zero, or an empty key field.
IsMalformed(h) ==
    \/ Len(h) # 6
    \/ /\ Len(h) = 6
       /\ \/ h[3].kind # "v=%d"
          \/ h[4].kind # "m=%d,t=%d,p=%d"
          \/ h[5].kind # "base64"
          \/ h[6].kind # "base64"
          \/ /\ h[4].kind = "m=%d,t=%d,p=%d"
             /\ (h[4].n[2] = 0 \/ h[4].n[3] = 0)
          \/ /\ h[6].kind = "base64"
             /\ h[6].n = NoBytes

VerifiedCalls == {c \in Calls : calls[c].pc = "done" /\ calls[c].op \in {"hashPassword", "password_hash"}}

C27_MalformedFailClosed ==
    \A c \in VerifiedCalls : IsMalformed(calls[c].hash) => calls[c].res = "false"

\* The malformed texts that verifyPassword does refuse: every one that fails
\* the field count, a Sscanf or a base64 decoding.
C27_ParseFailuresRefused ==
    \A c \in VerifiedCalls :
        LET h == calls[c].hash
        IN  (\/ Len(h) # 6
             \/ /\ Len(h) = 6
                /\ \/ h[3].kind # "v=%d"
                   \/ h[4].kind # "m=%d,t=%d,p=%d"
                   \/ h[5].kind # "base64"
                   \/ h[6].kind # "base64") => calls[c].res = "false"

C27_ZeroCostPanics ==
    \E c \in VerifiedCalls :
        /\ Len(calls[c].hash) = 6
        /\ calls[c].hash[4] = CostField(argon2Memory, 0, argon2Threads)
        /\ calls[c].res = "panic"

\* C28: a text that hashPassword (or an earlier build, under its own cost
\* parameters) wrote for p verifies p and refuses p followed by "x", under
\* whatever salt and cost parameters the text carries.
C28_RoundTrip ==
    \A c \in VerifiedCalls :
        ~IsMalformed(calls[c].hash) =>
            /\ calls[c].given = calls[c].pw => calls[c].res = "true"
            /\ calls[c].given = calls[c].pw \o "x" => calls[c].res = "false"

C28_Witness ==
    \E c \in VerifiedCalls :
        /\ calls[c].op = "password_hash"
        /\ calls[c].hash = EncodeHash("password1", <<2>>, 2, 19456, 1, argon2KeyLen)
        /\ calls[c].given = "password1"
        /\ calls[c].res = "true"

\* C29: Register, RequestPasswordReset and ResendVerificationEmail hand their
\* result back while the mail they caused is still waiting to be sent, and
\* the send, delivered or failed, changes no call, returned or in flight, and
\* nothing stored: a failure leaves no trace but the log line.
MailOps == {"Register", "RequestPasswordReset", "ResendVerificationEmail"}

C29_SendNeverSurfaces ==
    [][ /\ emailTasks' \ emailTasks # {} =>
              /\ sent' = sent
              /\ \E c \in Calls : /\ calls[c].pc # "done"
                                  /\ calls'[c].pc = "done"
                                  /\ calls'[c].op \in MailOps
        /\ emailTasks \ emailTasks' # {} =>
              /\ calls' = calls
              /\ users' = users
              /\ redisVars' = redisVars
              /\ sent' \in {sent} \cup {sent \cup {t} : t \in emailTasks} ]_vars

C29_Witness ==
    \E c \in Calls :
        /\ calls[c].pc = "done"
        /\ calls[c].op = "RequestPasswordReset"
        /\ [kind |-> "reset", tok |-> calls[c].newTok] \in emailTasks
        /\ \E t \in sent : t.kind = "verify"

\* C30: whatever came of the revocation (no token in the request, a token
\* never issued, expired, already revoked, or a store that failed), Logout
\* answers 200 "logged out" and clears the access and the refresh cookie.
LogoutCalls == {c \in Calls : calls[c].pc = "done" /\ calls[c].op \in {"Logout", "Handler.Logout"}}

C30_LogoutAlwaysSucceeds ==
    \A c \in LogoutCalls :
        /\ LogoutResponse(calls[c]).status = 200
        /\ LogoutResponse(calls[c]).message = "logged out"
        /\ LogoutResponse(calls[c]).cleared = {"access_token", "refresh_token"}
        /\ Status(calls[c]) = 200

\* The revocation failed on the store.
C30_Witness ==
    \E c \in LogoutCalls :
        /\ calls[c].res = "error"
        /\ hashToken(calls[c].tok) \notin revokedLog

\* The other cases of a logout: no token, an unknown one, an expired one, one
\* revoked before.
C30_Absent == \E c \in LogoutCalls : calls[c].op = "Handler.Logout" /\ calls[c].tok = NoTok
C30_Unknown == \E c \in LogoutCalls : calls[c].tok = ForgedTok /\ calls[c].res = "ErrRefreshTokenNotFound"
C30_Expired ==
    \E c \in LogoutCalls :
        /\ \E i \in issued : i.tok = calls[c].tok /\ i.expires_at < now
        /\ calls[c].res # "error"
C30_AlreadyRevoked ==
    \E c \in LogoutCalls :
        /\ hashToken(calls[c].tok) \in revokedLog
        /\ ~calls[c].revoked

\* C31: the middleware passes a request on only when VerifyToken returned
\* claims whose user id is a UUID; it answers TOKEN_EXPIRED exactly when
\* VerifyToken returned ErrExpiredToken, and INVALID_TOKEN for every other
\* error of VerifyToken.
AuthCalls ==
    {c \in Calls : /\ calls[c].pc = "done" /\ calls[c].op = "RequireAuth"
                   /\ calls[c].access # NoAccess}

C31_ExpiredDistinguished ==
    \A c \in AuthCalls :
        LET v == VerifyToken(calls[c].access)
            res == calls[c].res
        IN  /\ res = "next" => (v.err = "nil" /\ v.claims.user_id[1] = "uuid")
            /\ res = "token_expired" <=> v.err = "ErrExpiredToken"
            /\ v.err = "ErrInvalidToken" => res = "invalid_token"

C31_Witness ==
    \E c \in AuthCalls :
        /\ calls[c].access \in IssuedAccess
        /\ calls[c].res = "token_expired"

\* C32: whatever RefreshAccessToken stores belongs to the owner of the token
\* it was given, so along a chain of rotations that starts at a Login the
\* owner never changes.
OwnerOf(tok) == (CHOOSE i \in issued : i.tok = tok).owner

C32_ChainKeepsOwner ==
    \A i, j \in issued : i.parent = j.tok => i.owner = j.owner

C32_StoresForSameOwner ==
    [][ \A c \in Calls :
          (calls[c].op = "Refresh" /\ calls[c].pc = "store" /\ calls'[c].pc = "done") =>
              /\ \A h \in DOMAIN rtKeys' \ DOMAIN rtKeys :
                     rtKeys'[h].user_id = OwnerOf(calls[c].tok)
              /\ \A h \in DOMAIN sqlTokens' \ DOMAIN sqlTokens :
                     sqlTokens'[h].user_id = OwnerOf(calls[c].tok)
              /\ \A u \in DOMAIN userTokens' :
                     (u \notin DOMAIN userTokens \/ userTokens'[u] # userTokens[u])
                         => u = OwnerOf(calls[c].tok)
              /\ \A i \in issued' \ issued : i.owner = OwnerOf(calls[c].tok) ]_vars

C32_SameOwner == []C32_ChainKeepsOwner /\ C32_StoresForSameOwner

\* A token of the second account was rotated twice.
C32_Witness ==
    \E i, j, k \in issued :
        /\ k.parent = NoTok /\ k.owner = 2
        /\ j.parent = k.tok
        /\ i.parent = j.tok

\* C33: once no call is in flight, every password-reset key in the store
\* carries a TTL that ends within passwordResetTokenTTL.
C33_EveryResetKeyExpires ==
    Quiet => \A k \in DOMAIN resetKeys :
                /\ resetKeys[k].exp # NoTTL
                /\ resetKeys[k].exp <= now + passwordResetTokenTTL

\* A key stays behind without a TTL when the EXPIRE after its HSET failed.
C33_KeyLeftWithoutTTL ==
    /\ Quiet
    /\ \E k \in DOMAIN resetKeys : resetKeys[k].exp = NoTTL

\* C34: a rotation that was past its lookup when RevokeAllUserTokens
\* completed for the owner leaves no refresh token that a lookup accepts.
ReadsValid(tok) ==
    LET h == hashToken(tok)
    IN  IF backend = "redis"
        THEN RedisLookup(h) = "Token" /\ IsValid(RedisToken(h))
        ELSE h \in DOMAIN sqlTokens /\ IsValid(SqlToken(h))

C34_NoRotationSurvivesReset ==
    \A c \in Calls :
        (calls[c].pc = "done" /\ calls[c].op = "Refresh" /\ calls[c].overtaken) =>
            ~(calls[c].res = "Tokens" /\ ReadsValid(calls[c].newTok))

\* The rotation returned a pair after the reset had changed the password and
\* revoked every token of the owner it found.
C34_RotationSurvivedReset ==
    \E c \in Calls :
        /\ calls[c].pc = "done" /\ calls[c].op = "Refresh" /\ calls[c].overtaken
        /\ calls[c].res = "Tokens"
        /\ ReadsValid(calls[c].newTok)
        /\ users[calls[c].uid].password_hash = hashPassword("password2")

\* C35: a RefreshAccessToken that fails after its revoke step, at the user
\* lookup or at the store of the new token, leaves the presented token
\* revoked and hands out no replacement: the caller has the error, no token
\* pair was issued for the secret it drew, and a lookup of the presented
\* token no longer accepts it.  (A store that failed part-way may leave the
\* record of a secret that nobody received.)
FailedRotations ==
    {c \in Calls : /\ calls[c].pc = "done" /\ calls[c].op = "Refresh"
                   /\ calls[c].res \in {"failed to get user", "failed to generate tokens"}}

C35_FailureKeepsRevocation ==
    \A c \in FailedRotations :
        /\ calls[c].revoked
        /\ hashToken(calls[c].tok) \in revokedLog
        /\ ~ReadsValid(calls[c].tok)
        /\ calls[c].access = NoAccess
        /\ \A i \in issued : i.tok # calls[c].newTok \/ calls[c].newTok = NoTok

C35_Witness ==
    \E c \in FailedRotations :
        /\ calls[c].res = "failed to generate tokens"
        /\ ReadsRevoked(calls[c].tok)
        /\ \A i \in issued : i.parent # calls[c].tok

\* C36: for every (ip, purpose), no more than ipRateLimitMax requests that
\* passed the rate-limit check are recorded inside one window, however the
\* requests of that address interleave.
C36_WindowNeverExceeded ==
    \A ip \in Ips :
        RecordedInWindow(ipRateLimitKeyWithPurpose(ip, "login")) <= ipRateLimitMax

\* Two requests are past the check at once while one place is left in the
\* window.
C36_AdmittedTogether ==
    /\ \A c \in Calls : calls[c].pc = "record"
    /\ \E ip \in Ips :
          ZCard(ipKeys, ipRateLimitKeyWithPurpose(ip, "login")) = ipRateLimitMax - 1

\* C37: a ResetPassword that returns an error (the password too short or
\* empty, the token not found, the UPDATE failed) has written nothing: the
\* error comes from its entry or from the failed UPDATE, before any write,
\* and password hashes, reset keys and refresh tokens are as they were.
StoresUnchanged ==
    /\ users' = users
    /\ resetKeys' = resetKeys
    /\ rtKeys' = rtKeys
    /\ revokedKeys' = revokedKeys
    /\ userTokens' = userTokens
    /\ sqlTokens' = sqlTokens

C37_ErrorLeavesNoTrace ==
    [][\A c \in Calls :
          /\ (calls[c].pc = "idle" /\ calls'[c].op = "ResetPassword") => StoresUnchanged
          /\ (/\ calls'[c].op = "ResetPassword"
              /\ calls[c].pc # "done" /\ calls'[c].pc = "done"
              /\ calls'[c].res # "nil") =>
                  /\ calls[c].pc \in {"idle", "update_password"}
                  /\ StoresUnchanged ]_vars

C37_Witness ==
    \E c \in Calls :
        /\ calls[c].pc = "done" /\ calls[c].op = "ResetPassword"
        /\ calls[c].res = "failed to update password"
        /\ passwordResetKey(calls[c].tok) \in DOMAIN resetKeys
        /\ users[calls[c].uid].password_hash = hashPassword(SeedPassword)
        /\ \E i \in issued : i.owner = calls[c].uid /\ ReadsValid(i.tok)

\* C38: a verified account holds no verification token and no sent-at time;
\* email_verified never goes back to false; and no step, a resend that
\* passed its check before the account was verified included, writes a token
\* or a sent-at time on a verified account.
C38_VerifiedHoldsNoToken ==
    \A u \in DOMAIN users :
        users[u].email_verified =>
            /\ users[u].email_verification_token = NoTok
            /\ users[u].email_verification_sent_at = Null

C38_VerifiedStaysUntouched ==
    [][\A u \in DOMAIN users :
          users[u].email_verified =>
              /\ users'[u].email_verified
              /\ users'[u].email_verification_token = users[u].email_verification_token
              /\ users'[u].email_verification_sent_at = users[u].email_verification_sent_at
      ]_vars

C38_VerifiedInvariant == []C38_VerifiedHoldsNoToken /\ C38_VerifiedStaysUntouched

\* A resend drew its token for an account that was verified before the
\* UPDATE ran.
C38_Witness ==
    \E c \in Calls :
        /\ calls[c].pc = "done" /\ calls[c].op = "ResendVerificationEmail"
        /\ calls[c].newTok # NoTok
        /\ users[calls[c].uid].email_verified
        /\ [kind |-> "verify", tok |-> calls[c].newTok] \notin emailTasks \cup sent

\* C39: an email is handed to the sender only in the step that completed the
\* write of the token it carries (the row of the new user, the new
\* verification token of the row, the reset key with its TTL), and only
\* emails handed over that way are ever sent: a failed write sends nothing.
C39_MailOnlyAfterWrite ==
    [][ /\ \A t \in emailTasks' \ emailTasks :
              IF t.kind = "verify"
              THEN \E u \in DOMAIN users' :
                      /\ users'[u].email_verification_token = t.tok
                      /\ ~users'[u].email_verified
                      /\ (u \notin DOMAIN users
                            \/ users[u].email_verification_token # t.tok)
              ELSE /\ passwordResetKey(t.tok) \in DOMAIN resetKeys'
                   /\ resetKeys'[passwordResetKey(t.tok)].exp = now + passwordResetTokenTTL
        /\ sent' \ sent \subseteq emailTasks ]_vars

\* A reset whose EXPIRE failed returned without mail, beside a delivered
\* verification email.
C39_Witness ==
    /\ \E c \in Calls :
          /\ calls[c].pc = "done" /\ calls[c].op = "RequestPasswordReset"
          /\ calls[c].newTok # NoTok
          /\ [kind |-> "reset", tok |-> calls[c].newTok] \notin emailTasks \cup sent
          /\ passwordResetKey(calls[c].newTok) \in DOMAIN resetKeys
    /\ \E t \in sent : t.kind = "verify"

\* C40: a ResetPassword touches no reset key but the one of the token it was
\* given, so every other reset token of the user keeps its key and its TTL;
\* and a ResetPassword with an acceptable password whose key is in the store
\* goes on to change the password.
C40_OtherResetTokensKept ==
    [][\A c \in Calls :
          /\ (calls[c].op = "ResetPassword" /\ calls'[c] # calls[c]) =>
                \A k \in DOMAIN resetKeys \ {passwordResetKey(calls[c].tok)} :
                    /\ k \in DOMAIN resetKeys'
                    /\ resetKeys'[k] = resetKeys[k]
          /\ (/\ calls[c].pc = "idle" /\ calls'[c].op = "ResetPassword"
              /\ passwordResetKey(calls'[c].tok) \in DOMAIN resetKeys
              /\ calls'[c].res \notin {"ErrPasswordRequired", "ErrPasswordTooShort"}) =>
                /\ calls'[c].pc = "update_password"
                /\ calls'[c].uid = resetKeys[passwordResetKey(calls'[c].tok)].user_id
      ]_vars

\* Two reset tokens of one user were delivered; the first was used and
\* deleted, and before any TTL elapsed the second reset the password again.
C40_Witness ==
    \E c \in Calls, t1, t2 \in {x \in sent : x.kind = "reset"} :
        /\ t1 # t2
        /\ now = 0
        /\ passwordResetKey(t1.tok) \notin DOMAIN resetKeys
        /\ calls[c].pc = "done" /\ calls[c].op = "ResetPassword"
        /\ calls[c].tok = t2.tok
        /\ calls[c].res = "nil"
        /\ users[calls[c].uid].password_hash = hashPassword("password2")

====
